---------------------------- MODULE Spec2Model ----------------------------
(***************************************************************************)
(* A model of the IP resolution core of the repository, apis/ip/core.py:   *)
(* get_ip_info (remote aggregation, local MMDB pipeline, merge), the merge *)
(* policy _merge_unified and the prefix calculator get_addr.               *)
(*                                                                         *)
(* Python values are tagged records; a Python str is a sequence of         *)
(* one-character strings, so that parsing, formatting, joining and         *)
(* substring tests are computed character by character.  A Python dict is  *)
(* a function whose DOMAIN is its key set.                                 *)
(***************************************************************************)
EXTENDS Integers, Sequences, FiniteSets, TLC

VARIABLES
    \* ---- the merge policy applied to arbitrary dicts (SpecMerge)
    mbase,      \* the accumulator handed to _merge_unified
    minc,       \* the partial record handed to _merge_unified
    mres,       \* the dict _merge_unified returned
    mpc,        \* "idle" | "call" | "done"
    \* ---- the prefix calculator applied to arbitrary addresses (SpecAddr)
    agroups,    \* the address the input string was written from (its groups)
    aip,        \* the ip string handed to get_addr
    amask,      \* the mask length handed to get_addr
    ares,       \* the string get_addr returned
    ares2,      \* get_addr applied again to the returned network address
    apc,        \* "idle" | "call" | "done" | "again"
    \* ---- de_duplicate applied to arbitrary lists (SpecDedup)
    dregions,   \* the list handed to de_duplicate
    dret,       \* the list de_duplicate returned
    dret2,      \* de_duplicate applied again to the returned list
    dpc,        \* "idle" | "call" | "done" | "again"
    \* ---- one request: query_ip, get_ip_info, get_ip_info_remote,
    \* ---- get_ip_info_local (Spec, SpecRemote, SpecLocal, SpecApi)
    request,    \* query_ip: the request (headers, client, query parameter, key)
    response,   \* query_ip: the HTTP status and content returned
    pc,         \* position in the call
    ip,         \* the ip string of the call
    maxSources, \* get_ip_info_remote: its parameter max_sources
    unified,    \* get_ip_info_remote: the accumulator (while the call runs)
    tried,      \* get_ip_info_remote: the loop counter (while the call runs)
    attempts,   \* get_ip_info_remote: <<source, outcome>> of every attempt so far
    succeeded,  \* how many attempts of this resolution were merged
    remoteRet,  \* what get_ip_info_remote returned (a dict) or Raised
    remote,     \* get_ip_info: the variable remote
    db,         \* the records the three MMDB readers hold for ip
    lookups,    \* the MMDB readers consulted so far
    linfo,      \* get_ip_info_local: the variable info
    localRet,   \* what get_ip_info_local returned (a dict) or Raised
    local,      \* get_ip_info: the variable local
    result,     \* what get_ip_info returned (a dict) or Raised
    \* ---- get_des and get_country applied to arbitrary records (SpecNames)
    nd,         \* the record handed to get_des and get_country
    ndes,       \* the name get_des returned
    ncountry,   \* the name get_country returned
    npc,        \* "idle" | "call" | "done"
    \* ---- _as_number_from_string applied to arbitrary values (SpecAsNumber)
    sparts,     \* <<marker, AS number, rest>> the value was written from, or <<>>
    sval,       \* the value handed to _as_number_from_string
    sret,       \* the string _as_number_from_string returned
    sret2,      \* _as_number_from_string applied again to the returned string
    spc,        \* "idle" | "call" | "done" | "again"
    \* ---- token sessions: login, get_current_user, logout, change_password
    \* ---- (SpecAuth)
    redis,      \* Redis: the value stored under token:{username}, or None
    issued,     \* every token create_access_token has returned
    now,        \* the clock
    current,    \* per user the token issued last and not revoked since, or None
    reply,      \* the last operation and what it reported
    \* ---- quota accounting: verify_and_record_api_call (SpecQuota,
    \* ---- SpecQuotaConc)
    subscription, \* the subscription row: used_calls, remaining_calls
    api,          \* the API row: call_count
    session,      \* per request: position, the rows its session loaded, status
    accepted,     \* how many requests passed verify_api_key and went on
    lost,         \* how many of them record_api_call failed to record
    quota,        \* remaining_calls of the subscription at the start
    \* ---- several calls of get_ip_info_remote at once (SpecConc)
    heap,         \* the dicts allocated: object id -> dict, None if not allocated
    calls         \* per call: position, ip, the object unified names, attempts

mergeVars == <<mbase, minc, mres, mpc>>
addrVars  == <<agroups, aip, amask, ares, ares2, apc>>
dedupVars == <<dregions, dret, dret2, dpc>>
ipVars    == <<request, response, pc, ip, maxSources, unified, tried, attempts,
               succeeded, remoteRet, remote, db, lookups, linfo, localRet, local,
               result>>
nameVars  == <<nd, ndes, ncountry, npc>>
asNumVars == <<sparts, sval, sret, sret2, spc>>
authVars  == <<redis, issued, now, current, reply>>
quotaVars == <<subscription, api, session, accepted, lost, quota>>
concVars  == <<heap, calls>>
svcVars   == <<authVars, quotaVars, concVars>>
extVars   == <<nameVars, asNumVars, svcVars>>
pureVars  == <<mergeVars, addrVars, dedupVars, extVars>>
pureSansSvc == <<mergeVars, addrVars, dedupVars, nameVars, asNumVars>>
vars      == <<pureVars, ipVars>>

-----------------------------------------------------------------------------
(* Python values *)

None    == [k |-> "none"]
Str(s)  == [k |-> "str", s |-> s]
Num(n)  == [k |-> "num", n |-> n]
Bool(b) == [k |-> "bool", b |-> b]
Obj(o)  == [k |-> "obj", o |-> o]
List(l) == [k |-> "list", l |-> l]
\* the outcome of a call that raised instead of returning
Raised  == [k |-> "raised"]

Empty == Str(<<>>)

IsStr(v) == v.k = "str"
IsNum(v) == v.k = "num"
IsObj(v) == v.k = "obj"

\* bool(v)
Truthy(v) ==
    CASE v.k = "none" -> FALSE
      [] v.k = "str"  -> v.s # <<>>
      [] v.k = "num"  -> v.n # 0
      [] v.k = "bool" -> v.b
      [] v.k = "obj"  -> DOMAIN v.o # {}
      [] v.k = "list" -> v.l # <<>>

\* a or b
PyOr(a, b) == IF Truthy(a) THEN a ELSE b

\* v in (None, "", 0): membership by ==, and False == 0 in Python
InNoneEmptyZero(v) ==
    \/ v.k = "none"
    \/ v.k = "str" /\ v.s = <<>>
    \/ v.k = "num" /\ v.n = 0
    \/ v.k = "bool" /\ v.b = FALSE

\* d.get(key, default) on a dict d
Get(d, key, default) == IF key \in DOMAIN d THEN d[key] ELSE default

NoKeys == [x \in {} |-> None]

-----------------------------------------------------------------------------
(* _merge_unified *)

\* a merge that lets inc win over a non-empty base field
MergeIncWins(base, inc) ==
    [key \in DOMAIN base \cup DOMAIN inc |->
        IF key \in DOMAIN inc THEN inc[key] ELSE base[key]]

\* a merge that refills only missing keys and the empty string
MergeOnlyEmptyStr(base, inc) ==
    [key \in DOMAIN base \cup DOMAIN inc |->
        IF key \in DOMAIN inc /\ (key \notin DOMAIN base \/ base[key] = Empty)
        THEN inc[key] ELSE base[key]]

\* a merge that never writes
MergeKeepBase(base, inc) == base

\* _merge_unified(base, inc)
MergeUnified(base, inc) ==
    IF DOMAIN inc = {}
    THEN base
    ELSE [key \in DOMAIN base \cup DOMAIN inc |->
            IF key \in DOMAIN inc
               /\ (key \notin DOMAIN base \/ InNoneEmptyZero(base[key]))
            THEN inc[key]
            ELSE base[key]]

\* the keys and values the merge policy is exercised on
MergeKeys == {"city", "province"}
MergeVals == {None, Empty, Num(0), Bool(FALSE), Str(<<"A">>), Str(<<"B">>), Str(<<"C">>), Num(5)}
MergeDicts == UNION {[K -> MergeVals] : K \in SUBSET MergeKeys}

IdleMerge == mbase = NoKeys /\ minc = NoKeys /\ mres = NoKeys /\ mpc = "idle"

MergeCall ==
    /\ mpc = "call"
    /\ mres' = MergeUnified(mbase, minc)
    /\ mpc' = "done"
    /\ UNCHANGED <<mbase, minc, addrVars, dedupVars, extVars, ipVars>>

-----------------------------------------------------------------------------
(* str, int and the text of an address: what get_addr does through         *)
(* ipaddress.ip_network(f"{ip}/{mask}", strict=False), network_address     *)
(* and f"{first_ip}/{mask}"                                                *)

HexDigits == <<"0","1","2","3","4","5","6","7","8","9","a","b","c","d","e","f">>

\* the value of one digit character (decimal or hexadecimal, either case)
DigitVal(c) ==
    CASE c = "A" -> 10 [] c = "B" -> 11 [] c = "C" -> 12
      [] c = "D" -> 13 [] c = "E" -> 14 [] c = "F" -> 15
      [] OTHER -> (CHOOSE i \in 1..16 : HexDigits[i] = c) - 1

IsDecDigit(c) == \E i \in 1..10 : HexDigits[i] = c
IsHexDigit(c) == c \in {"A","B","C","D","E","F"} \/ \E i \in 1..16 : HexDigits[i] = c

RECURSIVE ToInt(_, _)
\* int(s, base) for a string of digits
ToInt(s, base) ==
    IF s = <<>> THEN 0
    ELSE ToInt(SubSeq(s, 1, Len(s) - 1), base) * base + DigitVal(s[Len(s)])

RECURSIVE ToText(_, _)
\* str(n) (base 10) and '%x' % n (base 16) for n >= 0
ToText(n, base) ==
    IF n < base THEN <<HexDigits[n + 1]>>
    ELSE ToText(n \div base, base) \o <<HexDigits[(n % base) + 1]>>

RECURSIVE Split(_, _)
\* s.split(sep) for a one-character separator
Split(s, sep) ==
    IF \A i \in 1..Len(s) : s[i] # sep THEN <<s>>
    ELSE LET i == CHOOSE j \in 1..Len(s) :
                     s[j] = sep /\ \A h \in 1..(j - 1) : s[h] # sep
         IN  <<SubSeq(s, 1, i - 1)>> \o Split(SubSeq(s, i + 1, Len(s)), sep)

RECURSIVE Join(_, _)
\* sep.join(parts)
Join(parts, sep) ==
    IF parts = <<>> THEN <<>>
    ELSE IF Len(parts) = 1 THEN parts[1]
    ELSE parts[1] \o sep \o Join(Tail(parts), sep)

RECURSIVE Pow2(_)
Pow2(n) == IF n = 0 THEN 1 ELSE 2 * Pow2(n - 1)

\* IPv4Address: four decimal octets, each 0..255
ValidV4(s) ==
    LET parts == Split(s, ".")
    IN  /\ Len(parts) = 4
        /\ \A i \in 1..4 :
              /\ Len(parts[i]) \in 1..3
              /\ \A j \in 1..Len(parts[i]) : IsDecDigit(parts[i][j])
              /\ ToInt(parts[i], 10) <= 255

ParseV4(s) == LET parts == Split(s, ".") IN [i \in 1..4 |-> ToInt(parts[i], 10)]

\* IPv6Address._ip_int_from_string: the index of the part "::" leaves empty
SkipIndex(parts) ==
    IF \E i \in 2..(Len(parts) - 1) : parts[i] = <<>>
    THEN CHOOSE i \in 2..(Len(parts) - 1) : parts[i] = <<>>
    ELSE 0

PartsHi(parts) ==
    LET k == SkipIndex(parts)
    IN  IF k = 0 THEN Len(parts)
        ELSE IF parts[1] = <<>> THEN k - 2 ELSE k - 1

PartsLo(parts) ==
    LET k == SkipIndex(parts)
    IN  IF k = 0 THEN 0
        ELSE IF parts[Len(parts)] = <<>> THEN Len(parts) - k - 1 ELSE Len(parts) - k

ValidV6(s) ==
    LET parts == Split(s, ":")
        k     == SkipIndex(parts)
        n     == Len(parts)
    IN  /\ n \in 3..9
        /\ Cardinality({i \in 2..(n - 1) : parts[i] = <<>>}) <= 1
        /\ IF k = 0
           THEN n = 8 /\ parts[1] # <<>> /\ parts[n] # <<>>
           ELSE /\ (parts[1] = <<>> => k = 2)
                /\ (parts[n] = <<>> => k = n - 1)
                /\ PartsHi(parts) + PartsLo(parts) < 8
        /\ \A i \in 1..n :
              /\ Len(parts[i]) <= 4
              /\ \A j \in 1..Len(parts[i]) : IsHexDigit(parts[i][j])

ParseV6(s) ==
    LET parts == Split(s, ":")
        hi    == PartsHi(parts)
        lo    == PartsLo(parts)
        n     == Len(parts)
    IN  [i \in 1..8 |->
            IF i <= hi THEN ToInt(parts[i], 16)
            ELSE IF i > 8 - lo THEN ToInt(parts[n - (8 - i)], 16)
            ELSE 0]

\* str(IPv4Address)
FormatV4(g) == Join([i \in 1..4 |-> ToText(g[i], 10)], <<".">>)

RECURSIVE BestRun(_, _, _, _, _, _)
\* IPv6Address._compress_hextets: the scan for the first longest run of "0"
\* hextets; <<best_doublecolon_start, best_doublecolon_len>>
BestRun(hex, i, bestStart, bestLen, start, len) ==
    IF i > Len(hex) THEN <<bestStart, bestLen>>
    ELSE IF hex[i] = <<"0">>
    THEN LET len2   == len + 1
             start2 == IF start = -1 THEN i ELSE start
         IN  IF len2 > bestLen
             THEN BestRun(hex, i + 1, start2, len2, start2, len2)
             ELSE BestRun(hex, i + 1, bestStart, bestLen, start2, len2)
    ELSE BestRun(hex, i + 1, bestStart, bestLen, -1, 0)

\* str(IPv6Address): ':'.join(_compress_hextets(hextets))
FormatV6(g) ==
    LET hex  == [i \in 1..8 |-> ToText(g[i], 16)]
        best == BestRun(hex, 1, -1, 0, -1, 0)
    IN  IF best[2] > 1
        THEN LET st    == best[1]
                 en    == st + best[2] - 1
                 mid   == SubSeq(hex, 1, st - 1) \o <<(<<>>)>> \o SubSeq(hex, en + 1, 8)
                 tail  == IF en = 8 THEN mid \o <<(<<>>)>> ELSE mid
                 parts == IF st = 1 THEN <<(<<>>)>> \o tail ELSE tail
             IN  Join(parts, <<":">>)
        ELSE Join(hex, <<":">>)

\* a mask that is rounded down to a whole number of groups
MaskGroupsWholeGroups(g, mask, w) ==
    [i \in DOMAIN g |-> IF w * i <= mask THEN g[i] ELSE 0]

\* network_address: ip & netmask, group by group (w bits a group)
MaskGroups(g, mask, w) ==
    [i \in DOMAIN g |->
        LET upto == w * i
            host == IF mask >= upto THEN 0
                    ELSE IF mask <= upto - w THEN w ELSE upto - mask
        IN  g[i] - (g[i] % Pow2(host))]

\* a get_addr that leaves the host bits as they are (prints ip itself)
GetAddrNoMask(ipstr, mask) == Str(ipstr \o <<"/">> \o ToText(mask, 10))

\* get_addr(ip, mask); Raised when ipaddress rejects the text or the mask
GetAddr(ipstr, mask) ==
    IF ValidV4(ipstr) /\ mask \in 0..32
    THEN Str(FormatV4(MaskGroups(ParseV4(ipstr), mask, 8))
               \o <<"/">> \o ToText(mask, 10))
    ELSE IF ValidV6(ipstr) /\ mask \in 0..128
    THEN Str(FormatV6(MaskGroups(ParseV6(ipstr), mask, 16))
               \o <<"/">> \o ToText(mask, 10))
    ELSE Raised

\* ---- the addresses and masks get_addr is exercised on
Octets4 == {0, 8, 129, 255}
Hextets6 == {0, 1, 3512, 8193, 65535}      \* 0xdb8 = 3512, 0x2001 = 8193
AddrsV4 == [1..4 -> Octets4]
AddrsV6 ==
    UNION {{<<a, b, 0, 0, 0, 0, 0, c>>, <<0, 0, a, 0, b, 0, 0, c>>,
            <<a, b, c, a, 0, 0, b, 0>>} : a \in Hextets6, b \in {0, 3512}, c \in {0, 1, 65535}}

\* the text a caller writes an address in: canonical, or with every group
\* written out
Canonical(g) == IF Len(g) = 4 THEN FormatV4(g) ELSE FormatV6(g)
WrittenOut(g) ==
    IF Len(g) = 4 THEN FormatV4(g)
    ELSE Join([i \in 1..8 |-> ToText(g[i], 16)], <<":">>)

IdleAddr ==
    /\ agroups = <<>> /\ aip = <<>> /\ amask = 0
    /\ ares = None /\ ares2 = None /\ apc = "idle"

\* get_addr(ip, mask)
AddrCall ==
    /\ apc = "call"
    /\ ares' = GetAddr(aip, amask)
    /\ apc' = "done"
    /\ UNCHANGED <<agroups, aip, amask, ares2, mergeVars, dedupVars, extVars, ipVars>>

\* the text before the "/" of a get_addr result
NetworkText(r) == Split(r.s, "/")[1]

\* get_addr(n, mask) for the network address n the first call returned
AddrAgain ==
    /\ apc = "done"
    /\ ares # Raised
    /\ ares2' = GetAddr(NetworkText(ares), amask)
    /\ apc' = "again"
    /\ UNCHANGED <<agroups, aip, amask, ares, mergeVars, dedupVars, extVars, ipVars>>

-----------------------------------------------------------------------------
(* Text helpers *)

LowerCase == <<"a","b","c","d","e","f","g","h","i","j","k","l","m",
               "n","o","p","q","r","s","t","u","v","w","x","y","z">>
UpperCase == <<"A","B","C","D","E","F","G","H","I","J","K","L","M",
               "N","O","P","Q","R","S","T","U","V","W","X","Y","Z">>

\* c.upper() and c.lower() for one character
UpperChar(c) ==
    IF \E i \in 1..26 : LowerCase[i] = c
    THEN UpperCase[CHOOSE i \in 1..26 : LowerCase[i] = c] ELSE c
LowerChar(c) ==
    IF \E i \in 1..26 : UpperCase[i] = c
    THEN LowerCase[CHOOSE i \in 1..26 : UpperCase[i] = c] ELSE c

\* s.upper(), s.lower()
Upper(s) == [i \in 1..Len(s) |-> UpperChar(s[i])]
Lower(s) == [i \in 1..Len(s) |-> LowerChar(s[i])]

\* sub in s
Contains(s, sub) ==
    \E i \in 0..(Len(s) - Len(sub)) : SubSeq(s, i + 1, i + Len(sub)) = sub

RECURSIVE Strip(_)
\* s.strip()
Strip(s) ==
    IF s = <<>> THEN s
    ELSE IF s[1] = " " THEN Strip(Tail(s))
    ELSE IF s[Len(s)] = " " THEN Strip(SubSeq(s, 1, Len(s) - 1))
    ELSE s

\* the characters of s that satisfy ch.isdigit()
RECURSIVE Digits(_)
Digits(s) ==
    IF s = <<>> THEN <<>>
    ELSE (IF IsDecDigit(s[1]) THEN <<s[1]>> ELSE <<>>) \o Digits(Tail(s))

\* str(value) for the scalar values an AS-number field arrives as
StrOf(v) ==
    CASE v.k = "str"  -> v.s
      [] v.k = "num"  -> IF v.n < 0 THEN <<"-">> \o ToText(0 - v.n, 10) ELSE ToText(v.n, 10)
      [] v.k = "bool" -> IF v.b THEN <<"T","r","u","e">> ELSE <<"F","a","l","s","e">>

\* a normalization that strips the marker and keeps the rest as it is
AsNumberUnfiltered(value) ==
    IF value = None THEN Empty
    ELSE LET s == Strip(StrOf(value))
         IN  Str(IF Len(s) >= 2 /\ Upper(SubSeq(s, 1, 2)) = <<"A","S">>
                 THEN SubSeq(s, 3, Len(s)) ELSE s)

\* _as_number_from_string
AsNumberFromString(value) ==
    IF value = None THEN Empty
    ELSE LET s == Strip(StrOf(value))
             t == IF Len(s) >= 2 /\ Upper(SubSeq(s, 1, 2)) = <<"A","S">>
                  THEN SubSeq(s, 3, Len(s)) ELSE s
         IN  Str(Digits(t))

IdleAsNum ==
    /\ sparts = <<>> /\ sval = None /\ sret = None /\ sret2 = None /\ spc = "idle"

\* _as_number_from_string(value)
AsNumCall ==
    /\ spc = "call"
    /\ sret' = AsNumberFromString(sval)
    /\ spc' = "done"
    /\ UNCHANGED <<sparts, sval, sret2, mergeVars, addrVars, dedupVars, nameVars, svcVars, ipVars>>

\* _as_number_from_string(previous result)
AsNumAgain ==
    /\ spc = "done"
    /\ sret2' = AsNumberFromString(sret)
    /\ spc' = "again"
    /\ UNCHANGED <<sparts, sval, sret, mergeVars, addrVars, dedupVars, nameVars, svcVars, ipVars>>

-----------------------------------------------------------------------------
(* The operator table and the organization-name heuristic.  A character    *)
(* outside ASCII is written as one element "uXXXX", its code point.         *)

\* the labels of asn_map and derive_isp_from_org
Labels ==
    [DongfangYouxian |-> <<"u4e1c", "u65b9", "u6709", "u7ebf">>,
     ZhongguoChangcheng |-> <<"u4e2d", "u56fd", "u957f", "u57ce">>,
     TianweiShixun |-> <<"u5929", "u5a01", "u89c6", "u8baf">>,
     GehuaYouxian |-> <<"u6b4c", "u534e", "u6709", "u7ebf">>,
     Kejiwang |-> <<"u79d1", "u6280", "u7f51">>,
     Huashu |-> <<"u534e", "u6570">>,
     Zhongguancun |-> <<"u4e2d", "u5173", "u6751">>,
     Jiaoyuwang |-> <<"u6559", "u80b2", "u7f51">>,
     CNNIC |-> <<"C", "N", "N", "I", "C">>,
     ZhongguoYidong |-> <<"u4e2d", "u56fd", "u79fb", "u52a8">>,
     ZhongguoDianxin |-> <<"u4e2d", "u56fd", "u7535", "u4fe1">>,
     ZhongguoLiantong |-> <<"u4e2d", "u56fd", "u8054", "u901a">>,
     JinshanYun |-> <<"u91d1", "u5c71", "u4e91">>,
     YoukeYun |-> <<"u4f18", "u523b", "u4e91">>,
     WangyiYun |-> <<"u7f51", "u6613", "u4e91">>,
     AliYun |-> <<"u963f", "u91cc", "u4e91">>,
     AliYunGuoji |-> <<"u963f", "u91cc", "u4e91", "u56fd", "u9645">>,
     TengxunYun |-> <<"u817e", "u8baf", "u4e91">>,
     TengxunYunGuoji |-> <<"u817e", "u8baf", "u4e91", "u56fd", "u9645">>,
     BaiduYun |-> <<"u767e", "u5ea6", "u4e91">>,
     HuaweiYun |-> <<"u534e", "u4e3a", "u4e91">>,
     AomenDianxun |-> <<"u6fb3", "u9580", "u96fb", "u8a0a">>,
     Cloudflare |-> <<"C", "l", "o", "u", "d", "f", "l", "a", "r", "e">>,
     YamaxunYun |-> <<"u4e9a", "u9a6c", "u900a", "u4e91">>,
     GugeYun |-> <<"u8c37", "u6b4c", "u4e91">>,
     HuoshanYinqing |-> <<"u706b", "u5c71", "u5f15", "u64ce">>]

\* asn_map
AsnMap ==
    (9812 :> Labels.DongfangYouxian) @@
    (9389 :> Labels.ZhongguoChangcheng) @@ (17962 :> Labels.TianweiShixun) @@
    (17429 :> Labels.GehuaYouxian) @@ (7497 :> Labels.Kejiwang) @@
    (24139 :> Labels.Huashu) @@ (9801 :> Labels.Zhongguancun) @@
    (4538 :> Labels.Jiaoyuwang) @@ (24151 :> Labels.CNNIC) @@
    (38019 :> Labels.ZhongguoYidong) @@ (139080 :> Labels.ZhongguoYidong) @@
    (9808 :> Labels.ZhongguoYidong) @@ (24400 :> Labels.ZhongguoYidong) @@
    (134810 :> Labels.ZhongguoYidong) @@ (24547 :> Labels.ZhongguoYidong) @@
    (56040 :> Labels.ZhongguoYidong) @@ (56041 :> Labels.ZhongguoYidong) @@
    (56042 :> Labels.ZhongguoYidong) @@ (56044 :> Labels.ZhongguoYidong) @@
    (132525 :> Labels.ZhongguoYidong) @@ (56046 :> Labels.ZhongguoYidong) @@
    (56047 :> Labels.ZhongguoYidong) @@ (56048 :> Labels.ZhongguoYidong) @@
    (59257 :> Labels.ZhongguoYidong) @@ (24444 :> Labels.ZhongguoYidong) @@
    (24445 :> Labels.ZhongguoYidong) @@ (137872 :> Labels.ZhongguoYidong) @@
    (9231 :> Labels.ZhongguoYidong) @@ (58453 :> Labels.ZhongguoYidong) @@
    (4134 :> Labels.ZhongguoDianxin) @@ (4812 :> Labels.ZhongguoDianxin) @@
    (23724 :> Labels.ZhongguoDianxin) @@
    (136188 :> Labels.ZhongguoDianxin) @@
    (137693 :> Labels.ZhongguoDianxin) @@
    (17638 :> Labels.ZhongguoDianxin) @@
    (140553 :> Labels.ZhongguoDianxin) @@ (4847 :> Labels.ZhongguoDianxin) @@
    (140061 :> Labels.ZhongguoDianxin) @@
    (136195 :> Labels.ZhongguoDianxin) @@
    (17799 :> Labels.ZhongguoDianxin) @@
    (139018 :> Labels.ZhongguoDianxin) @@
    (134764 :> Labels.ZhongguoDianxin) @@
    (4837 :> Labels.ZhongguoLiantong) @@ (4808 :> Labels.ZhongguoLiantong) @@
    (134542 :> Labels.ZhongguoLiantong) @@
    (134543 :> Labels.ZhongguoLiantong) @@ (59019 :> Labels.JinshanYun) @@
    (135377 :> Labels.YoukeYun) @@ (45062 :> Labels.WangyiYun) @@
    (37963 :> Labels.AliYun) @@ (45102 :> Labels.AliYunGuoji) @@
    (45090 :> Labels.TengxunYun) @@ (132203 :> Labels.TengxunYunGuoji) @@
    (55967 :> Labels.BaiduYun) @@ (38365 :> Labels.BaiduYun) @@
    (58519 :> Labels.HuaweiYun) @@ (55990 :> Labels.HuaweiYun) @@
    (136907 :> Labels.HuaweiYun) @@ (4609 :> Labels.AomenDianxun) @@
    (13335 :> Labels.Cloudflare) @@ (55960 :> Labels.YamaxunYun) @@
    (14618 :> Labels.YamaxunYun) @@ (16509 :> Labels.YamaxunYun) @@
    (15169 :> Labels.GugeYun) @@ (396982 :> Labels.GugeYun) @@
    (36492 :> Labels.GugeYun) @@ (137718 :> Labels.HuoshanYinqing)

\* get_as_info: asn_map.get(number)
GetAsInfo(number) ==
    IF IsNum(number) /\ number.n \in DOMAIN AsnMap THEN Str(AsnMap[number.n]) ELSE None

\* the rules of derive_isp_from_org, in their order: <<keywords, label>>
IspRules ==
    <<<<{<<"v", "o", "l", "c", "a", "n", "o">>,
          <<"b", "y", "t", "e">>},
         Labels.HuoshanYinqing>>,
       <<{<<"a", "l", "i", "b", "a", "b", "a">>,
          <<"a", "l", "i", "y", "u", "n">>,
          <<"a", "l", "i", "c", "l", "o", "u", "d">>},
         Labels.AliYun>>,
       <<{<<"t", "e", "n", "c", "e", "n", "t">>,
          <<"q", "c", "l", "o", "u", "d">>},
         Labels.TengxunYun>>,
       <<{<<"h", "u", "a", "w", "e", "i">>},
         Labels.HuaweiYun>>,
       <<{<<"b", "a", "i", "d", "u">>},
         Labels.BaiduYun>>,
       <<{<<"a", "m", "a", "z", "o", "n">>,
          <<"a", "w", "s">>},
         Labels.YamaxunYun>>,
       <<{<<"g", "o", "o", "g", "l", "e">>,
          <<"g", "c", "p">>},
         Labels.GugeYun>>,
       <<{<<"c", "l", "o", "u", "d", "f", "l", "a", "r", "e">>},
         Labels.Cloudflare>>>>

\* derive_isp_from_org
DeriveIspFromOrg(orgName) ==
    IF ~Truthy(orgName) THEN None
    ELSE LET name == Lower(orgName.s)
             hits == {i \in 1..Len(IspRules) :
                         \E kw \in IspRules[i][1] : Contains(name, kw)}
         IN  IF hits = {} THEN None
             ELSE Str(IspRules[CHOOSE i \in hits : \A h \in hits : i <= h][2])

\* ---- the texts the modelled responses and MMDB records carry
Txt ==
    [US |-> <<"U", "S">>,
     CN |-> <<"C", "N">>,
     HK |-> <<"H", "K">>,
     USA |-> <<"U", "S", "A">>,
     China |-> <<"C", "h", "i", "n", "a">>,
     CA |-> <<"C", "A">>,
     MV |-> <<"M", "V">>,
     Beijing |-> <<"u5317", "u4eac">>,
     Haidian |-> <<"u6d77", "u6dc0">>,
     PST |-> <<"P", "S", "T">>,
     CST |-> <<"C", "S", "T">>,
     GOOGLE |-> <<"G", "O", "O", "G", "L", "E">>,
     ASGOOGLE |-> <<"A", "S", "1", "5", "1", "6", "9", " ", "G", "O", "O", "G", "L", "E">>,
     AS15169 |-> <<"A", "S", "1", "5", "1", "6", "9">>,
     Unicom |-> <<"U", "n", "i", "c", "o", "m">>,
     Ip9 |-> <<"9", ".", "9", ".", "9", ".", "9">>,
     Net8 |-> <<"8", ".", "8", ".", "8", ".", "0", "/", "2", "4">>,
     Us |-> <<"u", "s">>,
     A |-> <<"A">>,
     B |-> <<"B">>,
     C |-> <<"C">>,
     datacenter |-> <<"d", "a", "t", "a", "c", "e", "n", "t", "e", "r">>,
     Zhongguo |-> <<"u4e2d", "u56fd">>,
     Xianggang |-> <<"u9999", "u6e2f">>,
     Aomen |-> <<"u6fb3", "u95e8">>,
     Taiwan |-> <<"u53f0", "u6e7e">>,
     Guangdong |-> <<"u5e7f", "u4e1c">>,
     Shenzhen |-> <<"u6df1", "u5733">>,
     Meiguo |-> <<"u7f8e", "u56fd">>,
     Jiazhou |-> <<"u52a0", "u5dde">>,
     Liantong |-> <<"u8054", "u901a">>,
     Dianxin |-> <<"u7535", "u4fe1">>,
     Kuandai |-> <<"u5bbd", "u5e26">>,
     UnitedStates |-> <<"U", "n", "i", "t", "e", "d", " ", "S", "t", "a", "t", "e", "s">>,
     California |-> <<"C", "a", "l", "i", "f", "o", "r", "n", "i", "a">>,
     MountainView |-> <<"M", "o", "u", "n", "t", "a", "i", "n", " ", "V", "i", "e", "w">>,
     HongKong |-> <<"H", "o", "n", "g", " ", "K", "o", "n", "g">>,
     GoogleLLC |-> <<"G", "O", "O", "G", "L", "E">>,
     TencentCloud |-> <<"T", "e", "n", "c", "e", "n", "t", " ", "C", "l", "o", "u", "d", " ", "C", "o", "m", "p", "u", "t", "i", "n", "g">>,
     ExampleNet |-> <<"E", "x", "a", "m", "p", "l", "e", " ", "N", "e", "t">>,
     Shanghai |-> <<"u4e0a", "u6d77">>]

-----------------------------------------------------------------------------
(* The unified schema and the six remote adapters *)

Keys17 == {"ip", "addr", "as_number", "as_name", "as_info", "country_code",
           "country_name", "registered_country_code", "registered_country_name",
           "latitude", "longitude", "province", "city", "regions", "type",
           "timezone", "isp"}

\* a template that lacks the two keys only remote sources fill
UnifiedTemplateNoIsp == [key \in Keys17 \ {"timezone", "isp"} |-> Empty]

\* _unified_template()
UnifiedTemplate == [key \in Keys17 |-> Empty]

\* u with u[key] = val for every key of the dict upd
Assign(u, upd) == [key \in DOMAIN u \cup DOMAIN upd |->
                      IF key \in DOMAIN upd THEN upd[key] ELSE u[key]]

\* j.get(key, "")
G(j, key) == Get(j, key, Empty)
\* j.get(key)
G0(j, key) == Get(j, key, None)

\* _from_ip_sb
FromIpSb(j) ==
    LET asName == PyOr(PyOr(G0(j, "asn_organization"), G0(j, "organization")), Empty)
    IN  Assign(UnifiedTemplate,
          [ip |-> G(j, "ip"), country_code |-> G(j, "country_code"),
           country_name |-> G(j, "country"), latitude |-> G(j, "latitude"),
           longitude |-> G(j, "longitude"), timezone |-> G(j, "timezone"),
           as_number |-> AsNumberFromString(G0(j, "asn")),
           as_name |-> asName, as_info |-> asName, isp |-> G(j, "isp")])

\* _from_ip2location
FromIp2location(j) ==
    Assign(UnifiedTemplate,
      [ip |-> G(j, "ip"), country_code |-> G(j, "country_code"),
       country_name |-> G(j, "country_name"), province |-> G(j, "region_name"),
       city |-> G(j, "city_name"), latitude |-> G(j, "latitude"),
       longitude |-> G(j, "longitude"),
       as_number |-> AsNumberFromString(G0(j, "asn")),
       as_name |-> G(j, "as"), as_info |-> G(j, "as"),
       timezone |-> G(j, "time_zone")])

\* _from_realip
FromRealip(j) ==
    Assign(UnifiedTemplate,
      [ip |-> G(j, "ip"), country_code |-> G(j, "iso_code"),
       country_name |-> G(j, "country"),
       province |-> PyOr(G(j, "province"), Empty),
       city |-> PyOr(G(j, "city"), Empty),
       latitude |-> G(j, "latitude"), longitude |-> G(j, "longitude"),
       addr |-> G(j, "network"), isp |-> G(j, "isp")])

\* _from_ip_api
FromIpApi(j) ==
    Assign(UnifiedTemplate,
      [ip |-> G(j, "query"), country_code |-> G(j, "countryCode"),
       country_name |-> G(j, "country"), province |-> G(j, "regionName"),
       city |-> PyOr(G(j, "city"), G(j, "district")),
       latitude |-> G(j, "lat"), longitude |-> G(j, "lon"),
       timezone |-> G(j, "timezone"), isp |-> G(j, "isp"),
       as_number |-> AsNumberFromString(PyOr(G0(j, "asname"), G0(j, "as"))),
       as_name |-> PyOr(G(j, "asname"), G(j, "org")),
       as_info |-> G(j, "as")])

\* x.get(...) raises unless x is a dict
IsDict(v) == v.k = "obj"
\* j.get(key, {}) or {}
SubDict(j, key) == PyOr(Get(j, key, Obj(NoKeys)), Obj(NoKeys))

\* _from_ipapi_is; Raised where the mapper raises (a .get on a value that is
\* no dict, .upper() on a value that is no str)
FromIpapiIs(j) ==
    LET loc  == SubDict(j, "location")
        asn  == SubDict(j, "asn")
        comp == SubDict(j, "company")
    IN  IF ~IsDict(loc) \/ ~IsDict(asn) \/ ~IsDict(comp) THEN Raised
        ELSE LET cc == PyOr(PyOr(G0(loc.o, "country"), G0(loc.o, "country_code")), Empty)
             IN  IF ~IsStr(cc) THEN Raised
                 ELSE Assign(UnifiedTemplate,
                   [ip |-> G(j, "ip"), country_code |-> Str(Upper(cc.s)),
                    country_name |-> PyOr(G(loc.o, "country"), Empty),
                    province |-> PyOr(G(loc.o, "state"), Empty),
                    city |-> PyOr(G(loc.o, "city"), Empty),
                    latitude |-> G(loc.o, "latitude"),
                    longitude |-> G(loc.o, "longitude"),
                    timezone |-> G(loc.o, "timezone"),
                    as_number |-> AsNumberFromString(G0(asn.o, "asn")),
                    as_name |-> G(asn.o, "org"),
                    as_info |-> PyOr(G(asn.o, "descr"), G(asn.o, "org")),
                    isp |-> G(comp.o, "name"),
                    type |-> IF Truthy(G0(j, "is_datacenter"))
                             THEN Str(Txt.datacenter)
                             ELSE Empty])

\* _from_ipwhois
FromIpwhois(j) ==
    Assign(UnifiedTemplate,
      [ip |-> G(j, "ip"), country_code |-> G(j, "country_code"),
       country_name |-> G(j, "country"), province |-> G(j, "region"),
       city |-> G(j, "city"), latitude |-> G(j, "latitude"),
       longitude |-> G(j, "longitude"),
       timezone |-> PyOr(G(j, "timezone"), G(j, "timezone_name")),
       as_number |-> AsNumberFromString(G0(j, "asn")),
       as_name |-> G(j, "org"),
       as_info |-> PyOr(G(j, "as"), G(j, "org")),
       isp |-> G(j, "isp")])

\* _sources_for_ip: the six sources, by the name of their mapper
Sources == {"ip_sb", "ip2location", "realip", "ip_api", "ipapi_is", "ipwhois"}

\* mapper(j) for the source src; every mapper starts with j.get, which raises
\* unless the body is a JSON object
Mapper(src, body) ==
    IF ~IsDict(body) THEN Raised
    ELSE CASE src = "ip_sb"       -> FromIpSb(body.o)
           [] src = "ip2location" -> FromIp2location(body.o)
           [] src = "realip"      -> FromRealip(body.o)
           [] src = "ip_api"      -> FromIpApi(body.o)
           [] src = "ipapi_is"    -> FromIpapiIs(body.o)
           [] src = "ipwhois"     -> FromIpwhois(body.o)

\* ---- the JSON bodies the modelled sources answer with
BodyUS ==
    Obj([ip |-> Str(Txt.Ip9), query |-> Str(Txt.Ip9),
         country_code |-> Str(Txt.US), countryCode |-> Str(Txt.US), iso_code |-> Str(Txt.US),
         country |-> Str(Txt.USA), country_name |-> Str(Txt.USA),
         region_name |-> Str(Txt.CA), regionName |-> Str(Txt.CA), region |-> Str(Txt.CA),
         province |-> Str(Txt.CA), city_name |-> Str(Txt.MV), city |-> Str(Txt.MV),
         latitude |-> Num(37), lat |-> Num(37), longitude |-> Num(0), lon |-> Num(0),
         timezone |-> Str(Txt.PST), time_zone |-> Str(Txt.PST),
         asn |-> Str(Txt.AS15169), as |-> Str(Txt.ASGOOGLE), asname |-> Str(Txt.GOOGLE),
         org |-> Str(Txt.GOOGLE), asn_organization |-> Str(Txt.GOOGLE),
         isp |-> Str(Txt.GOOGLE), network |-> Str(Txt.Net8)])

BodyCN ==
    Obj([country_code |-> Str(Txt.CN), countryCode |-> Str(Txt.CN), iso_code |-> Str(Txt.CN),
         country |-> Str(Txt.China), country_name |-> Str(Txt.China),
         regionName |-> Str(Txt.Beijing), region |-> Str(Txt.Beijing),
         province |-> Str(Txt.Beijing), city |-> Str(Txt.Haidian),
         latitude |-> Num(39), lat |-> Num(39), longitude |-> Num(116), lon |-> Num(116),
         timezone |-> Str(Txt.CST), asn |-> Num(4808), org |-> Str(Txt.Unicom),
         isp |-> Str(Txt.Unicom)])

\* a body whose fields are JSON null
BodyNulls ==
    Obj([ip |-> None, country_code |-> None, country |-> None, region |-> None,
         city |-> None, latitude |-> None, longitude |-> None, timezone |-> None,
         asn |-> None, org |-> None, as |-> None, isp |-> None])

\* a body whose region name is a JSON number
BodyNumRegion == Obj([region_name |-> Num(5), city_name |-> Str(Txt.MV)])

\* a body in the nested shape of ipapi.is
BodyNested ==
    Obj([ip |-> Str(Txt.Ip9),
         location |-> Obj([country |-> Str(Txt.Us), state |-> Str(Txt.CA), city |-> Str(Txt.MV),
                           latitude |-> Num(37), longitude |-> Num(0),
                           timezone |-> Str(Txt.PST)]),
         asn |-> Obj([asn |-> Num(15169), org |-> Str(Txt.GOOGLE)]),
         company |-> Obj([name |-> Str(Txt.GOOGLE)]),
         is_datacenter |-> Bool(TRUE)])

\* a body that is valid JSON and no object
BodyList == List(<<>>)

BodyOf(name) ==
    CASE name = "US"        -> BodyUS
      [] name = "CN"        -> BodyCN
      [] name = "Nulls"     -> BodyNulls
      [] name = "NumRegion" -> BodyNumRegion
      [] name = "Nested"    -> BodyNested
      [] name = "List"      -> BodyList

\* the bodies each source may answer with (status 200)
Responses(src) ==
    CASE src = "ip_sb"       -> {"US", "Nulls"}
      [] src = "ip2location" -> {"US", "NumRegion"}
      [] src = "realip"      -> {"CN"}
      [] src = "ip_api"      -> {"CN"}
      [] src = "ipapi_is"    -> {"Nested", "List"}
      [] src = "ipwhois"     -> {"CN", "Nulls"}

\* the ways a request fails: requests.get raises, a status other than 200,
\* a body resp.json() cannot parse
Failures == {"timeout", "status", "badjson"}

Outcomes(src) == Failures \cup Responses(src)

-----------------------------------------------------------------------------
(* get_ip_info_remote *)

\* max_sources as get_ip_info passes it
MaxSources == 3

\* a loop body that starts the accumulator afresh after a request that failed
AttemptEffectForgetful(u, src, outcome) ==
    IF outcome \in Failures THEN Assign(UnifiedTemplate, [ip |-> u["ip"]])
    ELSE LET partial == Mapper(src, BodyOf(outcome))
         IN  IF partial = Raised THEN Assign(UnifiedTemplate, [ip |-> u["ip"]])
             ELSE MergeUnified(u, partial)

\* one iteration of the loop body on the accumulator u: the try block with its
\* continue / except continue
AttemptEffect(u, src, outcome) ==
    IF outcome \in Failures THEN u
    ELSE LET partial == Mapper(src, BodyOf(outcome))
         IN  IF partial = Raised THEN u ELSE MergeUnified(u, partial)

\* a join that keeps the first non-empty part only
JoinFirstPart(parts) ==
    LET kept == SelectSeq(parts, Truthy)
    IN  IF kept = <<>> THEN Empty
        ELSE IF ~IsStr(kept[1]) THEN Raised
        ELSE kept[1]

\* ",".join([p for p in parts if p]) if any(parts) else "": Raised when a part
\* that is kept is no str (TypeError)
JoinParts(parts) ==
    LET kept == SelectSeq(parts, Truthy)
    IN  IF kept = <<>> THEN Empty
        ELSE IF \E i \in 1..Len(kept) : ~IsStr(kept[i]) THEN Raised
        ELSE Str(Join([i \in 1..Len(kept) |-> kept[i].s], <<",">>))

\* the regions fallback at the end of get_ip_info_remote
RemoteRegionsDefault(u) ==
    IF Truthy(Get(u, "regions", None)) THEN u
    ELSE LET r == JoinParts(<<Get(u, "province", Empty), Get(u, "city", Empty)>>)
         IN  IF r = Raised THEN Raised ELSE Assign(u, [regions |-> r])

\* the sources whose request has been answered with status 200
AttemptedAnswered ==
    {attempts[i][1] : i \in {k \in 1..Len(attempts) : attempts[k][2] \notin Failures}}

\* the sources attempted so far
Attempted == {attempts[i][1] : i \in 1..Len(attempts)}

\* whether the iteration merges a partial into the accumulator
AttemptMerges(src, outcome) ==
    outcome \notin Failures /\ Mapper(src, BodyOf(outcome)) # Raised

\* one iteration of the loop of get_ip_info_remote over the shuffled sources:
\* the next source of the random order is any source not attempted yet; out[src]
\* are the outcomes the request to src may have
RemoteAttemptOf(out) ==
    /\ pc = "remote"
    /\ tried < maxSources
    /\ \E src \in Sources \ Attempted :
       \E outcome \in out[src] :
          /\ tried' = tried + 1
          /\ attempts' = Append(attempts, <<src, outcome>>)
          /\ unified' = AttemptEffect(unified, src, outcome)
          /\ succeeded' = IF AttemptMerges(src, outcome) THEN succeeded + 1
                          ELSE succeeded
    /\ UNCHANGED <<request, response, pc, ip, maxSources, remoteRet, remote, db,
                   lookups, linfo, localRet, local, result, pureVars>>

RemoteAttempt == RemoteAttemptOf([src \in Sources |-> Outcomes(src)])

\* get_ip_info, step 1: remote is what get_ip_info_remote returned, or the
\* template with ip set when it raised
RemoteOrTemplate(ret, ipstr) ==
    IF ret = Raised THEN Assign(UnifiedTemplate, [ip |-> Str(ipstr)]) ELSE ret

\* the loop of get_ip_info_remote ends, the regions fallback runs and
\* get_ip_info receives the result inside its try; the locals of
\* get_ip_info_remote are gone
RemoteReturn ==
    /\ pc = "remote"
    /\ tried >= maxSources \/ Sources \ Attempted = {}
    /\ remoteRet' = RemoteRegionsDefault(unified)
    /\ remote' = RemoteOrTemplate(remoteRet', ip)
    /\ pc' = "local"
    /\ unified' = NoKeys /\ tried' = 0 /\ attempts' = <<>>
    /\ UNCHANGED <<request, response, ip, maxSources, succeeded, db, lookups, linfo,
                   localRet, local, result, pureVars>>

-----------------------------------------------------------------------------
(* The local pipeline: get_maxmind, get_cn, build_uniform_result,          *)
(* get_ip_info_local.  An MMDB record is a dict; a reader's answer is None  *)
(* (a miss), a record, or Raised when the lookup raises.                    *)

\* a preference order that starts with English
LangEnFirst == <<"en", "zh-CN">>

\* lang
Lang == <<"zh-CN", "en">>

\* get_des
GetDes(d) ==
    LET names == Get(d, "names", Obj(NoKeys)).o
        have  == {i \in 1..Len(Lang) : Lang[i] \in DOMAIN names}
    IN  IF have # {} THEN names[Lang[CHOOSE i \in have : \A h \in have : i <= h]]
        ELSE Get(names, "en", Empty)

\* get_country
GetCountry(d) ==
    LET countryName == GetDes(d)
    IN  IF countryName \in {Str(Txt.Xianggang), Str(Txt.Aomen), Str(Txt.Taiwan)}
        THEN Str(Txt.Zhongguo \o countryName.s)
        ELSE countryName

IdleNames == nd = NoKeys /\ ndes = None /\ ncountry = None /\ npc = "idle"

\* get_des(d) and get_country(d)
NamesCall ==
    /\ npc = "call"
    /\ ndes' = GetDes(nd)
    /\ ncountry' = GetCountry(nd)
    /\ npc' = "done"
    /\ UNCHANGED <<nd, mergeVars, addrVars, dedupVars, asNumVars, svcVars, ipVars>>

RECURSIVE DeDupInto(_, _)
DeDupInto(ret, rest) ==
    IF rest = <<>> THEN ret
    ELSE IF Truthy(rest[1]) /\ \A i \in 1..Len(ret) : ret[i] # rest[1]
    THEN DeDupInto(Append(ret, rest[1]), Tail(rest))
    ELSE DeDupInto(ret, Tail(rest))

\* a de_duplicate that only drops the empty entries
DeDuplicateFilterOnly(regions) == SelectSeq(regions, Truthy)

\* de_duplicate
DeDuplicate(regions) == DeDupInto(<<>>, regions)

\* the lists de_duplicate is applied to: every list of at most MaxDedupLen
\* entries drawn from the empty string and three names
NameBeijing  == <<"B", "e", "i", "j", "i", "n", "g">>
NameHaidian  == <<"H", "a", "i", "d", "i", "a", "n">>
NameChaoyang == <<"C", "h", "a", "o", "y", "a", "n", "g">>
DedupNames   == {Empty, Str(NameBeijing), Str(NameHaidian), Str(NameChaoyang)}
MaxDedupLen  == 4
DedupLists   == UNION {[1..n -> DedupNames] : n \in 0..MaxDedupLen}

IdleDedup == dregions = <<>> /\ dret = <<>> /\ dret2 = <<>> /\ dpc = "idle"

\* de_duplicate(regions)
DedupCall ==
    /\ dpc = "call"
    /\ dret' = DeDuplicate(dregions)
    /\ dpc' = "done"
    /\ UNCHANGED <<dregions, dret2, mergeVars, addrVars, extVars, ipVars>>

\* de_duplicate applied to its own result
DedupAgain ==
    /\ dpc = "done"
    /\ dret2' = DeDuplicate(dret)
    /\ dpc' = "again"
    /\ UNCHANGED <<dregions, dret, mergeVars, addrVars, extVars, ipVars>>

\* an ASN step that asks the heuristic before the table
AsDataHeuristicFirst(asnInfo) ==
    IF ~({"autonomous_system_number", "autonomous_system_organization"}
            \subseteq DOMAIN asnInfo)
    THEN Raised
    ELSE LET number == asnInfo["autonomous_system_number"]
             name   == asnInfo["autonomous_system_organization"]
             WithExtra(extra) ==
                 IF Truthy(extra)
                 THEN Obj([number |-> number, name |-> name, info |-> extra])
                 ELSE Obj([number |-> number, name |-> name])
         IN  WithExtra(PyOr(DeriveIspFromOrg(name), GetAsInfo(number)))

\* get_maxmind, the ASN step: as_data, or Raised on a missing key
AsData(asnInfo) ==
    IF ~({"autonomous_system_number", "autonomous_system_organization"}
            \subseteq DOMAIN asnInfo)
    THEN Raised
    ELSE LET number == asnInfo["autonomous_system_number"]
             name   == asnInfo["autonomous_system_organization"]
             WithExtra(extra) ==
                 IF Truthy(extra)
                 THEN Obj([number |-> number, name |-> name, info |-> extra])
                 ELSE Obj([number |-> number, name |-> name])
         IN  WithExtra(PyOr(GetAsInfo(number), DeriveIspFromOrg(name)))

\* a sub-record {code, name} of get_maxmind, or Raised without iso_code
CountryPart(c) ==
    IF "iso_code" \notin DOMAIN c THEN Raised
    ELSE Obj([code |-> c["iso_code"], name |-> GetCountry(c)])

\* a region list the city name is always appended to
RegionListAlwaysCity(cityInfo, countryName) ==
    LET subs    == Get(cityInfo, "subdivisions", List(<<>>)).l
        regions == [i \in 1..Len(subs) |-> GetDes(subs[i].o)]
    IN  IF "city" \in DOMAIN cityInfo
        THEN Append(regions, GetDes(cityInfo["city"].o))
        ELSE regions

\* get_maxmind, the region list before de_duplicate
RegionList(cityInfo, countryName) ==
    LET subs    == Get(cityInfo, "subdivisions", List(<<>>)).l
        regions == [i \in 1..Len(subs) |-> GetDes(subs[i].o)]
        WithCity(city) ==
            IF (regions = <<>> \/ ~Contains(regions[Len(regions)].s, city.s))
               /\ ~Contains(countryName, city.s)
            THEN Append(regions, city)
            ELSE regions
    IN  IF "city" \in DOMAIN cityInfo
        THEN WithCity(GetDes(cityInfo["city"].o))
        ELSE regions

\* get_maxmind: ret["regions"], ret["province"] and ret["city"] written
WriteRegions(ret, regions) ==
    Assign(ret,
           Assign(Assign([regions |-> List(regions)],
                         IF regions # <<>> THEN [province |-> regions[1]] ELSE NoKeys),
                  IF Len(regions) > 1 THEN [city |-> regions[Len(regions)]]
                  ELSE NoKeys))

\* get_maxmind after a City hit: location, country, registered_country,
\* regions, province and city written into ret
CityPart(ret, cityInfo) ==
    LET loc == IF "location" \in DOMAIN cityInfo
               THEN [location |->
                       Obj([latitude  |-> G0(cityInfo["location"].o, "latitude"),
                            longitude |-> G0(cityInfo["location"].o, "longitude")])]
               ELSE NoKeys
        Fill(cty, reg) ==
            IF cty = Raised \/ reg = Raised THEN Raised
            ELSE LET list == RegionList(cityInfo,
                                        IF cty = None THEN <<>> ELSE cty.o.name.s)
                 IN  WriteRegions(
                         Assign(Assign(Assign(ret, loc),
                                       IF cty = None THEN NoKeys ELSE [country |-> cty]),
                                IF reg = None THEN NoKeys
                                ELSE [registered_country |-> reg]),
                         DeDuplicate(list))
    IN  Fill(IF "country" \in DOMAIN cityInfo
             THEN CountryPart(cityInfo["country"].o) ELSE None,
             IF "registered_country" \in DOMAIN cityInfo
             THEN CountryPart(cityInfo["registered_country"].o) ELSE None)

\* get_maxmind; d holds what the readers answer for ip
GetMaxmind(ipstr, d) ==
    LET Build(as, addr) ==
            IF as = Raised \/ addr = Raised THEN Raised
            ELSE LET ret == Assign(Assign([ip |-> Str(ipstr)],
                                          IF as = None THEN NoKeys ELSE [as |-> as]),
                                   [addr |-> addr])
                 IN  IF ~Truthy(d.city) THEN ret ELSE CityPart(ret, d.city.o)
    IN  IF d.asn = Raised \/ d.city = Raised THEN Raised
        ELSE Build(IF Truthy(d.asn) THEN AsData(d.asn.o) ELSE None,
                   GetAddr(ipstr, d.cityPrefix))

\* a get_cn that keeps the region list of the City step
GetCnKeepRegions(ipstr, info, d) ==
    LET Write(addr) == IF addr = Raised THEN info ELSE Assign(info, [addr |-> addr])
    IN  IF d.cn = Raised \/ ~Truthy(d.cn) THEN info
        ELSE Write(GetAddr(ipstr, d.cnPrefix))

\* get_cn(ip, info): info as get_cn leaves it.  A lookup that raises leaves it
\* as it was (the caller passes over the exception).
GetCn(ipstr, info, d) ==
    LET cnInfo == d.cn.o
        as     == IF "as" \in DOMAIN info THEN info["as"].o ELSE NoKeys
        Write(addr, regions, isp, net) ==
            IF addr = Raised THEN info
            ELSE Assign(info,
                   Assign(Assign(Assign(Assign(Assign(
                       [addr |-> addr],
                       IF regions # <<>> THEN [regions |-> List(regions)] ELSE NoKeys),
                       IF regions # <<>> /\ ~Truthy(G0(info, "province"))
                       THEN [province |-> regions[1]] ELSE NoKeys),
                       IF Len(regions) > 1 /\ ~Truthy(G0(info, "city"))
                       THEN [city |-> regions[Len(regions)]] ELSE NoKeys),
                       [as |-> Obj(IF Truthy(isp) THEN Assign(as, [info |-> isp])
                                   ELSE as)]),
                       IF Truthy(net) THEN [type |-> net] ELSE NoKeys))
    IN  IF d.cn = Raised \/ ~Truthy(d.cn) THEN info
        ELSE Write(GetAddr(ipstr, d.cnPrefix),
                   DeDuplicate(<<PyOr(G(cnInfo, "province"), Empty),
                                 PyOr(G(cnInfo, "city"), Empty),
                                 PyOr(G(cnInfo, "districts"), Empty)>>),
                   G0(cnInfo, "isp"), G0(cnInfo, "net"))

\* build_uniform_result.get_nested, for a path of two keys
GetNested(info, k1, k2) ==
    LET cur == G0(info, k1)
    IN  IF cur = None \/ ~IsDict(cur) THEN Empty
        ELSE IF G0(cur.o, k2) = None THEN Empty ELSE G0(cur.o, k2)

NoneToEmpty(v) == IF v = None THEN Empty ELSE v

\* build_uniform_result
BuildUniformResult(info) ==
    LET regions == Get(info, "regions", List(<<>>))
    IN  [ip |-> NoneToEmpty(G(info, "ip")),
         addr |-> NoneToEmpty(G(info, "addr")),
         as_number |-> GetNested(info, "as", "number"),
         as_name |-> GetNested(info, "as", "name"),
         as_info |-> GetNested(info, "as", "info"),
         country_code |-> GetNested(info, "country", "code"),
         country_name |-> GetNested(info, "country", "name"),
         registered_country_code |-> GetNested(info, "registered_country", "code"),
         registered_country_name |-> GetNested(info, "registered_country", "name"),
         latitude |-> GetNested(info, "location", "latitude"),
         longitude |-> GetNested(info, "location", "longitude"),
         province |-> NoneToEmpty(G(info, "province")),
         city |-> NoneToEmpty(G(info, "city")),
         regions |-> IF Truthy(regions)
                     THEN Str(Join([i \in 1..Len(regions.l) |-> regions.l[i].s], <<",">>))
                     ELSE Empty,
         type |-> NoneToEmpty(G(info, "type"))]

\* an override that is always looked up
OverrideAlways(info) == TRUE

\* an override condition that does not look at the registered country
OverrideAppliesCountryOnly(info) ==
    /\ "country" \in DOMAIN info
    /\ G0(info["country"].o, "code") = Str(Txt.CN)

\* the condition of get_ip_info_local under which get_cn is called
OverrideApplies(info) ==
    /\ "country" \in DOMAIN info
    /\ G0(info["country"].o, "code") = Str(Txt.CN)
    /\ \/ "registered_country" \notin DOMAIN info
       \/ G0(info["registered_country"].o, "code") = Str(Txt.CN)

\* the dict get_ip_info_local hands to build_uniform_result
LocalInfo(ipstr, d) ==
    LET Override(info) ==
            IF info = Raised THEN Raised
            ELSE IF OverrideApplies(info) THEN GetCn(ipstr, info, d) ELSE info
    IN  Override(GetMaxmind(ipstr, d))

\* get_ip_info_local
GetIpInfoLocal(ipstr, d) ==
    LET Build(info) == IF info = Raised THEN Raised ELSE BuildUniformResult(info)
    IN  Build(LocalInfo(ipstr, d))

\* the readers get_maxmind consults: the City lookup is not reached when the
\* ASN step raises
MaxmindLookups(d) ==
    IF d.asn = Raised \/ (Truthy(d.asn) /\ AsData(d.asn.o) = Raised)
    THEN {"asn"} ELSE {"asn", "city"}

\* the readers get_ip_info_local consults
Lookups(ipstr, d) ==
    LET After(i) == IF i # Raised /\ OverrideApplies(i) THEN {"cn"} ELSE {}
    IN  MaxmindLookups(d) \cup After(GetMaxmind(ipstr, d))

\* get_ip_info_local calls get_maxmind; an exception leaves get_ip_info_local
MaxmindCall ==
    /\ pc = "maxmind"
    /\ linfo' = GetMaxmind(ip, db)
    /\ lookups' = MaxmindLookups(db)
    /\ IF linfo' = Raised
       THEN localRet' = Raised /\ pc' = "returned"
       ELSE localRet' = localRet /\ pc' = "override"
    /\ UNCHANGED <<request, response, ip, maxSources, unified, tried, attempts,
                   succeeded, remoteRet, remote, db, local, result, pureVars>>

\* get_ip_info_local decides on the override and calls get_cn inside its try
OverrideStep ==
    /\ pc = "override"
    /\ IF OverrideApplies(linfo)
       THEN linfo' = GetCn(ip, linfo, db) /\ lookups' = lookups \cup {"cn"}
       ELSE UNCHANGED <<linfo, lookups>>
    /\ pc' = "build"
    /\ UNCHANGED <<request, response, ip, maxSources, unified, tried, attempts,
                   succeeded, remoteRet, remote, db, localRet, local, result,
                   pureVars>>

\* get_ip_info_local returns build_uniform_result(info)
BuildCall ==
    /\ pc = "build"
    /\ localRet' = BuildUniformResult(linfo)
    /\ pc' = "returned"
    /\ UNCHANGED <<request, response, ip, maxSources, unified, tried, attempts,
                   succeeded, remoteRet, remote, db, lookups, linfo, local, result,
                   pureVars>>

\* ---- the records the modelled MMDB files hold
NamesOf(zh, en) == Obj([names |-> Obj(("zh-CN" :> Str(zh)) @@ ("en" :> Str(en)))])
NamesEn(en) == Obj([names |-> Obj([en |-> Str(en)])])
CountryOf(code, zh, en) ==
    Obj([iso_code |-> Str(code),
         names |-> Obj(("zh-CN" :> Str(zh)) @@ ("en" :> Str(en)))])

AsnGoogle ==
    Obj([autonomous_system_number |-> Num(15169),
         autonomous_system_organization |-> Str(Txt.GoogleLLC)])
AsnTencent ==
    Obj([autonomous_system_number |-> Num(64512),
         autonomous_system_organization |-> Str(Txt.TencentCloud)])
AsnExample ==
    Obj([autonomous_system_number |-> Num(64513),
         autonomous_system_organization |-> Str(Txt.ExampleNet)])
\* a record without its organization
AsnMalformed == Obj([autonomous_system_number |-> Num(64514)])
\* a number of the table under an organization name a keyword rule matches
AsnTelecomTencent ==
    Obj([autonomous_system_number |-> Num(4134),
         autonomous_system_organization |-> Str(Txt.TencentCloud)])
\* a number outside the table under a name two keyword rules match
AsnCloudMix ==
    Obj([autonomous_system_number |-> Num(64515),
         autonomous_system_organization |->
             Str(<<"G", "o", "o", "g", "l", "e", " ", "o", "n", " ", "A", "W", "S">>)])
\* a number outside the table under an empty name
AsnNoName ==
    Obj([autonomous_system_number |-> Num(64516),
         autonomous_system_organization |-> Empty])

CityUS ==
    Obj([location |-> Obj([latitude |-> Num(37), longitude |-> Num(-122)]),
         country |-> CountryOf(Txt.US, Txt.Meiguo, Txt.UnitedStates),
         registered_country |-> CountryOf(Txt.US, Txt.Meiguo, Txt.UnitedStates),
         subdivisions |-> List(<<NamesOf(Txt.Jiazhou, Txt.California)>>),
         city |-> NamesEn(Txt.MountainView)])
\* country CN, no registered country, the city named as its subdivision
CityBeijing ==
    Obj([location |-> Obj([latitude |-> Num(39), longitude |-> Num(116)]),
         country |-> CountryOf(Txt.CN, Txt.Zhongguo, Txt.China),
         subdivisions |-> List(<<NamesOf(Txt.Beijing, Txt.Beijing)>>),
         city |-> NamesOf(Txt.Beijing, Txt.Beijing)])
\* country and registered country CN, a province and a city
CityShenzhen ==
    Obj([country |-> CountryOf(Txt.CN, Txt.Zhongguo, Txt.China),
         registered_country |-> CountryOf(Txt.CN, Txt.Zhongguo, Txt.China),
         subdivisions |-> List(<<NamesOf(Txt.Guangdong, Txt.Guangdong)>>),
         city |-> NamesOf(Txt.Shenzhen, Txt.Shenzhen)])
\* country CN registered in the US
CityCnRegUS ==
    Obj([country |-> CountryOf(Txt.CN, Txt.Zhongguo, Txt.China),
         registered_country |-> CountryOf(Txt.US, Txt.Meiguo, Txt.UnitedStates),
         subdivisions |-> List(<<NamesOf(Txt.Shanghai, Txt.Shanghai)>>),
         city |-> NamesOf(Txt.Shanghai, Txt.Shanghai)])
CityHK ==
    Obj([country |-> CountryOf(Txt.HK, Txt.Xianggang, Txt.HongKong),
         city |-> NamesOf(Txt.Xianggang, Txt.HongKong)])
\* a record with a location on the equator and nothing else
CityBare == Obj([location |-> Obj([latitude |-> Num(0)])])
\* a record whose country has no iso_code
CityMalformed == Obj([country |-> NamesEn(Txt.China)])

\* two subdivisions, the city name inside the name of the second
CityTwoSubs ==
    Obj([country |-> CountryOf(Txt.US, Txt.Meiguo, Txt.UnitedStates),
         subdivisions |-> List(<<NamesOf(Txt.Jiazhou, Txt.California),
                                 NamesEn(Txt.MountainView)>>),
         city |-> NamesEn(<<"V", "i", "e", "w">>)])
\* a city and no subdivision
CityNoSubs ==
    Obj([country |-> CountryOf(Txt.US, Txt.Meiguo, Txt.UnitedStates),
         city |-> NamesEn(Txt.MountainView)])
\* a subdivision without names after the one the city repeats
CityRepeat ==
    Obj([country |-> CountryOf(Txt.CN, Txt.Zhongguo, Txt.China),
         subdivisions |-> List(<<NamesOf(Txt.Beijing, Txt.Beijing), Obj(NoKeys)>>),
         city |-> NamesOf(Txt.Beijing, Txt.Beijing)])
\* two subdivisions and a city that is in neither
CityThree ==
    Obj([country |-> CountryOf(Txt.CN, Txt.Zhongguo, Txt.China),
         registered_country |-> CountryOf(Txt.CN, Txt.Zhongguo, Txt.China),
         subdivisions |-> List(<<NamesOf(Txt.Guangdong, Txt.Guangdong),
                                 NamesOf(Txt.Shenzhen, Txt.Shenzhen)>>),
         city |-> NamesOf(Txt.Haidian, Txt.Haidian)])
\* country CN and nothing else
CityCnOnly == Obj([country |-> CountryOf(Txt.CN, Txt.Zhongguo, Txt.China)])

CnFull ==
    Obj([province |-> Str(Txt.Beijing), city |-> Str(Txt.Beijing),
         districts |-> Str(Txt.Haidian), isp |-> Str(Txt.Liantong),
         net |-> Str(Txt.Kuandai)])
CnProvince == Obj([province |-> Str(Txt.Guangdong)])
\* a match whose province, city and district are all empty
CnEmpty == Obj([province |-> Empty, city |-> None, isp |-> Str(Txt.Dianxin)])

\* what the three readers answer for one ip, with the prefix lengths of the
\* City and override matches
Db(asn, city, cityPrefix, cn, cnPrefix) ==
    [asn |-> asn, city |-> city, cityPrefix |-> cityPrefix,
     cn |-> cn, cnPrefix |-> cnPrefix]

AsnAnswers  == {None, AsnGoogle, AsnTencent, AsnExample, AsnMalformed, Raised}
CityAnswers == {<<None, 16>>, <<CityUS, 24>>, <<CityBeijing, 24>>, <<CityShenzhen, 22>>,
                <<CityCnRegUS, 24>>, <<CityHK, 24>>, <<CityBare, 8>>,
                <<CityMalformed, 24>>}
CnAnswers   == {<<None, 16>>, <<CnFull, 20>>, <<CnProvince, 12>>, <<CnEmpty, 20>>,
                <<Raised, 0>>}

\* the databases a call of get_ip_info_local alone is run against
DbsLocal ==
    {Db(a, c[1], c[2], n[1], n[2]) :
        a \in AsnAnswers \cup {AsnTelecomTencent, AsnCloudMix, AsnNoName},
        c \in CityAnswers \cup {<<CityTwoSubs, 24>>, <<CityNoSubs, 20>>,
                                <<CityRepeat, 24>>, <<CityThree, 18>>,
                                <<CityCnOnly, 10>>, <<None, 8>>},
        n \in CnAnswers}

\* the databases a resolution is run against
DbsResolve ==
    {Db(a, c[1], c[2], n[1], n[2]) :
        a \in AsnAnswers, c \in CityAnswers, n \in CnAnswers}

\* the ip strings a resolution is asked for
Ip8888 == <<"8", ".", "8", ".", "8", ".", "8">>
IpDoc  == <<"2", "0", "0", "1", ":", "d", "b", "8", ":", ":", "1">>
Ips == {Ip8888, IpDoc}

-----------------------------------------------------------------------------
(* get_ip_info *)

\* a coordinator that lets an exception of the local pipeline through
LocalOrRaise(ret) == ret

\* get_ip_info, step 2: local is what get_ip_info_local returned, or {} when
\* it raised
LocalOrEmpty(ret) == IF ret = Raised THEN NoKeys ELSE ret

\* get_ip_info calls get_ip_info_local inside its try; dbs are the answers
\* the readers may give
LocalCallOf(dbs) ==
    /\ pc = "local"
    /\ \E d \in dbs :
          /\ db' = d
          /\ lookups' = Lookups(ip, d)
          /\ localRet' = GetIpInfoLocal(ip, d)
          /\ local' = LocalOrEmpty(localRet')
    /\ pc' = "merge"
    /\ UNCHANGED <<request, response, ip, maxSources, unified, tried, attempts,
                   succeeded, remoteRet, remote, linfo, result, pureVars>>

LocalCall == LocalCallOf(DbsResolve)

\* the regions fallback at the end of get_ip_info
FinalRegionsDefault(merged) ==
    IF Truthy(Get(merged, "regions", None)) THEN merged
    ELSE LET r == JoinParts(<<Get(merged, "province", Empty), Get(merged, "city", Empty)>>)
         IN  IF r = Raised THEN Raised ELSE Assign(merged, [regions |-> r])

\* get_ip_info, steps 3 and 4, outside any try: Raised when remote or local
\* is an exception that was not caught
MergeAndDefault(rem, loc) ==
    IF rem = Raised \/ loc = Raised THEN Raised
    ELSE FinalRegionsDefault(MergeUnified(rem, loc))

MergeReturn ==
    /\ pc = "merge"
    /\ result' = MergeAndDefault(remote, local)
    /\ pc' = "done"
    /\ UNCHANGED <<request, response, ip, maxSources, unified, tried, attempts,
                   succeeded, remoteRet, remote, db, lookups, linfo, localRet, local,
                   pureVars>>

-----------------------------------------------------------------------------
(* query_ip, the handler of GET /ip *)

\* an address that parses whatever it is
IsIpAddressAny(s) == TRUE

\* ipaddress.ip_address(s) returns (no ValueError)
IsIpAddress(s) == ValidV4(s) \/ ValidV6(s)

\* HTTPException(status_code) as the framework answers it
HttpError(status) == [status |-> status, data |-> None]

\* JSONResponse(status_code=200, content={"code": 200, "msg": ..., "data": ip_info})
JsonOk(ipInfo) == [status |-> 200, data |-> Obj(ipInfo)]

\* verify_and_record_api_call: None when the key is accepted, the
\* HTTPException it raises when it is not, Raised for any other exception
VerifyAndRecord(req) ==
    CASE req.auth = "ok"     -> None
      [] req.auth = "denied" -> HttpError(401)
      [] req.auth = "error"  -> Raised

\* the address query_ip resolves: the stripped ip parameter when it is given
\* and not empty, else the first of x-forwarded-for, x-real-ip, client host
QueryIpVal(req) ==
    IF Truthy(req.param) THEN Strip(req.param.s)
    ELSE PyOr(req.xff, PyOr(req.xreal, req.host)).s

\* query_ip up to its call of get_ip_info: verification, the choice of the
\* address, its validation; get_ip_info then enters get_ip_info_remote
QueryIp ==
    /\ pc = "request"
    /\ LET v == VerifyAndRecord(request)
           Enter(addr) ==
               IF ~IsIpAddress(addr)
               THEN /\ response' = HttpError(400)
                    /\ pc' = "responded"
                    /\ UNCHANGED <<ip, maxSources, unified>>
               ELSE /\ ip' = addr
                    /\ maxSources' = MaxSources
                    /\ unified' = Assign(UnifiedTemplate, [ip |-> Str(addr)])
                    /\ pc' = "remote"
                    /\ UNCHANGED response
       IN  IF v # None
           THEN /\ response' = IF v = Raised THEN HttpError(500) ELSE v
                /\ pc' = "responded"
                /\ UNCHANGED <<ip, maxSources, unified>>
           ELSE Enter(QueryIpVal(request))
    /\ UNCHANGED <<request, tried, attempts, succeeded, remoteRet, remote, db,
                   lookups, linfo, localRet, local, result, pureVars>>

\* query_ip after get_ip_info: the 200 response, or 500 for its exception
QueryReturn ==
    /\ pc = "done"
    /\ response' = IF result = Raised THEN HttpError(500) ELSE JsonOk(result)
    /\ pc' = "responded"
    /\ UNCHANGED <<request, ip, maxSources, unified, tried, attempts, succeeded,
                   remoteRet, remote, db, lookups, linfo, localRet, local, result,
                   pureVars>>

\* address texts that ip_address parses, and texts it raises ValueError on
Parsable == {Ip8888, IpDoc}
TxtListed   == <<"1", ".", "1", ".", "1", ".", "1", ",", " ", "8", ".", "8", ".", "8", ".", "8">>
TxtPadded   == <<" ", "8", ".", "8", ".", "8", ".", "8", " ">>
TxtSpaces   == <<" ", " ">>
TxtWord     == <<"a", "b", "c">>
TxtOctet256 == <<"2", "5", "6", ".", "1", ".", "1", ".", "1">>
TxtThree    == <<"8", ".", "8", ".", "8">>
TxtNetwork  == <<"8", ".", "8", ".", "8", ".", "8", "/", "2", "4">>
TxtBadHex   == <<":", ":", "g">>
TxtHostName == <<"t", "e", "s", "t", "c", "l", "i", "e", "n", "t">>
Unparsable ==
    {<<>>, TxtListed, TxtPadded, TxtWord, TxtOctet256, TxtThree, TxtNetwork,
     TxtBadHex, TxtHostName}

\* the requests query_ip is given
Requests ==
    [auth  : {"ok", "denied", "error"},
     param : {None, Empty, Str(TxtSpaces), Str(TxtPadded), Str(TxtWord),
              Str(TxtOctet256), Str(TxtThree), Str(TxtNetwork), Str(IpDoc)},
     xff   : {None, Str(TxtListed), Str(Ip8888)},
     xreal : {None, Str(TxtBadHex)},
     host  : {Str(Ip8888), Str(TxtHostName)}]

\* what the sources answer while a request is served
OutcomesApi(src) == IF src = "ip_sb" THEN {"timeout", "US"} ELSE {"status"}

RemoteAttemptApi == RemoteAttemptOf([src \in Sources |-> OutcomesApi(src)])

-----------------------------------------------------------------------------
(* Specifications *)

\* nothing of a request has happened
NoCall ==
    /\ unified = NoKeys /\ tried = 0 /\ attempts = <<>> /\ succeeded = 0
    /\ remoteRet = None /\ remote = None /\ db = None /\ lookups = {}
    /\ linfo = None /\ localRet = None /\ local = None /\ result = None

IdleIp ==
    /\ request = None /\ response = None
    /\ pc = "idle" /\ ip = <<>> /\ maxSources = 0
    /\ NoCall

-----------------------------------------------------------------------------
(* Token sessions: app/auth.py, app/user/api.py, app/cache.py *)

\* the accounts of the user table
Users == {"alice", "bob"}

\* how long the clock runs
MaxNow == 2

\* access_token_expire_minutes, in steps of the clock
TokenTtl == 2

\* jwt.encode({"sub": username, "exp": exp}, secret_key): the same claims give
\* the same string; signed is FALSE for a string jwt.decode does not verify
Jwt(username, exp, signed) == [sub |-> username, exp |-> exp, signed |-> signed]

\* create_access_token(data={"sub": username}): the token it returns
CreateAccessToken(username) == Jwt(username, now + TokenTtl, TRUE)

\* cache_manager.set("token:" + username, token, ttl): setex, or nothing
\* stored when the Redis call raises (the exception is logged, False returned)
CacheSet(username, token, setOk) ==
    IF setOk THEN [redis EXCEPT ![username] = token] ELSE redis

\* cache_manager.get("token:" + username): the value stored unless its ttl
\* has run out, None when the key is missing
CacheGet(username) ==
    IF redis[username] # None /\ redis[username].exp > now THEN redis[username]
    ELSE None

\* cache_manager.delete("token:" + username): the key is removed, or nothing
\* happens when the Redis call raises (the exception is logged, False returned)
CacheDelete(username, delOk) ==
    IF delOk THEN [redis EXCEPT ![username] = None] ELSE redis

\* what revoke_token returns: cache_manager.delete raises nothing, so the
\* except branch is never taken
RevokeToken(delOk) == TRUE

\* get_current_user(token): the user, or the HTTPException it raises
GetCurrentUser(token) ==
    IF ~token.signed \/ token.exp < now THEN HttpError(401)
    ELSE IF CacheGet(token.sub) # token THEN HttpError(401)
    ELSE IF token.sub \notin Users THEN HttpError(401)
    ELSE [status |-> 200, data |-> token.sub]

\* the bearer tokens a request may carry: any token issued so far, or a string
\* that is no token of this server
Forged == {Jwt(u, MaxNow + TokenTtl, FALSE) : u \in Users}
Bearers == issued \cup Forged

IdleAuth ==
    /\ redis = None /\ issued = {} /\ now = 0 /\ current = None /\ reply = None


\* POST /login with the right password: create_access_token stores the token
\* and the token is returned
Login ==
    \E username \in Users, setOk \in BOOLEAN :
        /\ redis' = CacheSet(username, CreateAccessToken(username), setOk)
        /\ issued' = issued \cup {CreateAccessToken(username)}
        /\ current' = [current EXCEPT ![username] = CreateAccessToken(username)]
        /\ reply' = [op |-> "login", user |-> username,
                     token |-> CreateAccessToken(username), success |-> TRUE]
        /\ UNCHANGED <<now, quotaVars, concVars, pureSansSvc, ipVars>>

\* a request to an endpoint that depends on get_current_user
Authenticate ==
    \E token \in Bearers :
        /\ reply' = [op |-> "get_current_user", user |-> token.sub, token |-> token,
                     success |-> GetCurrentUser(token).status = 200]
        /\ UNCHANGED <<redis, issued, now, current, quotaVars, concVars, pureSansSvc, ipVars>>

\* POST /logout
Logout ==
    \E token \in Bearers, delOk \in BOOLEAN :
        IF GetCurrentUser(token).status # 200
        THEN /\ reply' = [op |-> "logout", user |-> token.sub, token |-> token,
                          success |-> FALSE]
             /\ UNCHANGED <<redis, issued, now, current, quotaVars, concVars, pureSansSvc, ipVars>>
        ELSE /\ redis' = CacheDelete(token.sub, delOk)
             /\ current' = [current EXCEPT ![token.sub] = None]
             /\ reply' = [op |-> "logout", user |-> token.sub, token |-> token,
                          success |-> RevokeToken(delOk)]
             /\ UNCHANGED <<issued, now, quotaVars, concVars, pureSansSvc, ipVars>>

\* POST /change-password: 400 when the current password is wrong, 500 when
\* the update fails, else the token is revoked and success reported
ChangePassword ==
    \E token \in Bearers, passwordOk \in BOOLEAN, updated \in BOOLEAN, delOk \in BOOLEAN :
        IF GetCurrentUser(token).status # 200 \/ ~passwordOk \/ ~updated
        THEN /\ reply' = [op |-> "change_password", user |-> token.sub, token |-> token,
                          success |-> FALSE]
             /\ UNCHANGED <<redis, issued, now, current, quotaVars, concVars, pureSansSvc, ipVars>>
        ELSE /\ redis' = CacheDelete(token.sub, delOk)
             /\ current' = [current EXCEPT ![token.sub] = None]
             /\ reply' = [op |-> "change_password", user |-> token.sub, token |-> token,
                          success |-> TRUE]
             /\ UNCHANGED <<issued, now, quotaVars, concVars, pureSansSvc, ipVars>>

\* time passes
Tick ==
    /\ now < MaxNow
    /\ now' = now + 1
    /\ reply' = [op |-> "tick"]
    /\ UNCHANGED <<redis, issued, current, quotaVars, concVars, pureSansSvc, ipVars>>

-----------------------------------------------------------------------------
(* Quota accounting: app/utils/api_recorder.py *)

\* how many requests are made
MaxRequests == 3

\* the largest remaining_calls a subscription starts with
MaxQuota == 2

Procs == 1..MaxRequests

\* a request that has not opened its session, or has closed it; status is 0
\* while the request has no answer
NoSession == [pc |-> "start", used_calls |-> None, remaining_calls |-> None,
              call_count |-> None, status |-> 0]

\* verify_api_key(api_key, api_id, db) on the subscription row sub: the status
\* of the HTTPException it raises, 200 when it returns; checks 1 to 9 (the
\* key, the subscription, its user and the API) pass iff keyOk
VerifyApiKey(sub, keyOk) ==
    IF ~keyOk THEN 401
    ELSE IF sub.remaining_calls # None /\ sub.remaining_calls.n <= 0 THEN 429
    ELSE 200

\* record_api_call: remaining_calls as it is assigned to a subscription loaded
\* with remaining
Decremented(remaining) ==
    IF remaining # None /\ remaining.n > 0 THEN Num(remaining.n - 1) ELSE remaining

\* record_api_call on the rows the session s holds: the subscription row
\* db.commit() writes
RecordedSubscription(s) ==
    [used_calls |-> s.used_calls + 1, remaining_calls |-> Decremented(s.remaining_calls)]

IdleQuota ==
    /\ subscription = None /\ api = None /\ session = None
    /\ accepted = 0 /\ lost = 0 /\ quota = None


\* verify_and_record_api_call, first half: the session is opened and
\* verify_api_key loads the subscription and the API into it
Verify(p) ==
    \E keyOk \in BOOLEAN :
        /\ session[p].pc = "start"
        /\ session' = [session EXCEPT ![p] =
              IF VerifyApiKey(subscription, keyOk) # 200
              THEN [NoSession EXCEPT !.pc = "rejected",
                                     !.status = VerifyApiKey(subscription, keyOk)]
              ELSE [pc |-> "verified",
                    used_calls |-> subscription.used_calls,
                    remaining_calls |-> subscription.remaining_calls,
                    call_count |-> api.call_count,
                    status |-> 0]]
        /\ UNCHANGED <<subscription, api, accepted, lost, quota>>
        /\ UNCHANGED <<authVars, concVars, pureSansSvc, ipVars>>

\* verify_and_record_api_call, second half: record_api_call finds the rows
\* the session already holds, adds to them and commits; when that raises, the
\* session is rolled back and False returned, which the caller does not look at
Record(p) ==
    \E committed \in BOOLEAN :
        /\ session[p].pc = "verified"
        /\ subscription' = IF committed THEN RecordedSubscription(session[p])
                           ELSE subscription
        /\ api' = IF committed THEN [call_count |-> session[p].call_count + 1] ELSE api
        /\ lost' = IF committed THEN lost ELSE lost + 1
        /\ accepted' = accepted + 1
        /\ session' = [session EXCEPT ![p] = [NoSession EXCEPT !.pc = "accepted",
                                                               !.status = 200]]
        /\ UNCHANGED <<quota, authVars, concVars, pureSansSvc, ipVars>>

\* no other request is between its verify_api_key and its record_api_call
Alone(p) == \A q \in Procs \ {p} : session[q].pc # "verified"

-----------------------------------------------------------------------------
(* Several calls of get_ip_info_remote at once.  A dict is an object of the
   heap; a call's variable unified names one. *)

\* how many calls are made
MaxResolves == 2

\* max_sources of these calls
ConcMaxSources == 2

Resolves == 1..MaxResolves

\* a template that is one module-level dict, the same object for every call
SharedTemplate(r) == 1

\* _unified_template(): the dict literal is evaluated at each call, so the
\* call r gets an object of its own
NewTemplate(r) == r

\* the ip of the call r
IpOf(r) == IF r % 2 = 1 THEN Ip8888 ELSE IpDoc

\* the outcomes of the requests of these calls; the sources that come first
\* in the shuffled order are among ip_sb, ip_api and ipwhois
OutcomesConc(src) ==
    CASE src = "ip_sb"   -> {"timeout", "US"}
      [] src = "ip_api"  -> {"CN"}
      [] src = "ipwhois" -> {"Nulls"}
      [] OTHER           -> {}

NoResolve == [pc |-> "idle", ip |-> <<>>, unified |-> 0, attempts |-> <<>>]

IdleConc == heap = None /\ calls = None

IdleSvc == IdleAuth /\ IdleQuota /\ IdleConc

\* get_ip_info_remote(ip, max_sources) is called: the sources are shuffled,
\* the template is taken and ip set in it
ResolveStart(r) ==
    /\ calls[r].pc = "idle"
    /\ heap' = [heap EXCEPT ![NewTemplate(r)] = Assign(UnifiedTemplate, [ip |-> Str(IpOf(r))])]
    /\ calls' = [calls EXCEPT ![r] = [pc |-> "remote", ip |-> IpOf(r),
                                      unified |-> NewTemplate(r), attempts |-> <<>>]]
    /\ UNCHANGED <<authVars, quotaVars, pureSansSvc, ipVars>>

\* one iteration of the loop of the call r: _merge_unified writes into the
\* object unified names
ResolveAttempt(r) ==
    /\ calls[r].pc = "remote"
    /\ Len(calls[r].attempts) < ConcMaxSources
    /\ \E src \in Sources \ {calls[r].attempts[i][1] : i \in 1..Len(calls[r].attempts)} :
       \E outcome \in OutcomesConc(src) :
          /\ heap' = [heap EXCEPT ![calls[r].unified] =
                         AttemptEffect(heap[calls[r].unified], src, outcome)]
          /\ calls' = [calls EXCEPT ![r].attempts = Append(@, <<src, outcome>>)]
    /\ UNCHANGED <<authVars, quotaVars, pureSansSvc, ipVars>>

\* the loop of the call r ends, the regions fallback runs and unified is
\* returned
ResolveReturn(r) ==
    /\ calls[r].pc = "remote"
    /\ \/ Len(calls[r].attempts) >= ConcMaxSources
       \/ Sources \ {calls[r].attempts[i][1] : i \in 1..Len(calls[r].attempts)} = {}
    /\ heap' = [heap EXCEPT ![calls[r].unified] = RemoteRegionsDefault(heap[calls[r].unified])]
    /\ calls' = [calls EXCEPT ![r].pc = "returned"]
    /\ UNCHANGED <<authVars, quotaVars, pureSansSvc, ipVars>>

IdleExt == IdleNames /\ IdleAsNum /\ IdleSvc

IdlePure == IdleMerge /\ IdleAddr /\ IdleDedup /\ IdleExt

\* get_ip_info(ip): get_ip_info_remote has shuffled its sources, taken the
\* template and set ip
Init ==
    /\ request = None /\ response = None
    /\ ip \in Ips
    /\ pc = "remote"
    /\ maxSources = MaxSources
    /\ unified = Assign(UnifiedTemplate, [ip |-> Str(ip)])
    /\ tried = 0 /\ attempts = <<>> /\ succeeded = 0
    /\ remoteRet = None /\ remote = None /\ db = None /\ lookups = {}
    /\ linfo = None /\ localRet = None /\ local = None /\ result = None
    /\ IdlePure

Next == RemoteAttempt \/ RemoteReturn \/ LocalCall \/ MergeReturn

Spec == Init /\ [][Next]_vars

\* _merge_unified on every pair of dicts over MergeKeys and MergeVals
InitMerge ==
    /\ mbase \in MergeDicts /\ minc \in MergeDicts
    /\ mres = NoKeys /\ mpc = "call"
    /\ IdleAddr /\ IdleDedup /\ IdleExt /\ IdleIp

NextMerge == MergeCall

SpecMerge == InitMerge /\ [][NextMerge]_vars

\* get_addr on every address of AddrsV4 and AddrsV6, in either text form,
\* under every mask length of its width
InitAddr ==
    /\ agroups \in AddrsV4 \cup AddrsV6
    /\ aip \in {Canonical(agroups), WrittenOut(agroups)}
    /\ amask \in 0..(IF Len(agroups) = 4 THEN 32 ELSE 128)
    /\ ares = None /\ ares2 = None /\ apc = "call"
    /\ IdleMerge /\ IdleDedup /\ IdleExt /\ IdleIp

NextAddr == AddrCall \/ AddrAgain

SpecAddr == InitAddr /\ [][NextAddr]_vars

\* get_ip_info_local(ip) against every database of DbsLocal
InitLocal ==
    /\ request = None /\ response = None
    /\ ip \in Ips
    /\ db \in DbsLocal
    /\ pc = "maxmind"
    /\ maxSources = 0
    /\ unified = NoKeys /\ tried = 0 /\ attempts = <<>> /\ succeeded = 0
    /\ remoteRet = None /\ remote = None /\ lookups = {}
    /\ linfo = None /\ localRet = None /\ local = None /\ result = None
    /\ IdlePure

NextLocal == MaxmindCall \/ OverrideStep \/ BuildCall

SpecLocal == InitLocal /\ [][NextLocal]_vars

\* the largest max_sources get_ip_info_remote is called with
MaxMaxSources == 7

\* what the sources answer to get_ip_info_remote called alone
OutcomesFew(src) ==
    CASE src = "ip_sb"       -> {"timeout", "US"}
      [] src = "ip2location" -> {"status", "NumRegion"}
      [] src = "realip"      -> {"badjson"}
      [] src = "ip_api"      -> {"CN"}
      [] src = "ipapi_is"    -> {"List"}
      [] src = "ipwhois"     -> {"Nulls"}

RemoteAttemptFew == RemoteAttemptOf([src \in Sources |-> OutcomesFew(src)])

\* get_ip_info_remote(ip, max_sources) for every max_sources of 0..MaxMaxSources
InitRemote ==
    /\ request = None /\ response = None
    /\ ip = Ip8888
    /\ pc = "remote"
    /\ maxSources \in 0..MaxMaxSources
    /\ unified = Assign(UnifiedTemplate, [ip |-> Str(ip)])
    /\ tried = 0 /\ attempts = <<>> /\ succeeded = 0
    /\ remoteRet = None /\ remote = None /\ db = None /\ lookups = {}
    /\ linfo = None /\ localRet = None /\ local = None /\ result = None
    /\ IdlePure

NextRemote == RemoteAttemptFew \/ RemoteReturn

SpecRemote == InitRemote /\ [][NextRemote]_vars

\* the databases behind a served request
DbsApi == {Db(AsnGoogle, CityUS, 24, None, 16), Db(Raised, None, 16, None, 16)}

LocalCallApi == LocalCallOf(DbsApi)

\* query_ip on every request of Requests
InitApi ==
    /\ request \in Requests /\ response = None
    /\ pc = "request" /\ ip = <<>> /\ maxSources = 0
    /\ NoCall
    /\ IdlePure

NextApi ==
    \/ QueryIp \/ RemoteAttemptApi \/ RemoteReturn \/ LocalCallApi \/ MergeReturn
    \/ QueryReturn

SpecApi == InitApi /\ [][NextApi]_vars

\* de_duplicate on every list of DedupLists, and again on its result
InitDedup ==
    /\ dregions \in DedupLists
    /\ dret = <<>> /\ dret2 = <<>> /\ dpc = "call"
    /\ IdleMerge /\ IdleAddr /\ IdleExt /\ IdleIp

NextDedup == DedupCall \/ DedupAgain

SpecDedup == InitDedup /\ [][NextDedup]_vars

\* the name maps get_des is given: every map from a set of languages to names
NameLangs == {"zh-CN", "en", "ja"}
NameVals ==
    {Str(Txt.Xianggang), Str(Txt.Aomen), Str(Txt.Taiwan), Str(Txt.Zhongguo),
     Str(Txt.HongKong), Empty}
NameRecords ==
    {NoKeys} \cup
    {[names |-> Obj(m)] : m \in UNION {[L -> NameVals] : L \in SUBSET NameLangs}}

\* get_des and get_country on every record of NameRecords
InitNames ==
    /\ nd \in NameRecords
    /\ ndes = None /\ ncountry = None /\ npc = "call"
    /\ IdleMerge /\ IdleAddr /\ IdleDedup /\ IdleAsNum /\ IdleSvc /\ IdleIp

NextNames == NamesCall

SpecNames == InitNames /\ [][NextNames]_vars

\* the values an AS-number field arrives as: a marker, a number and a rest
\* written one after the other, and values that are no such string
AsMarkers == {<<>>, <<"A", "S">>, <<"a", "s">>, <<" ", "A", "s">>}
AsNumbers == {<<"1", "2", "3", "4", "5">>, <<"1", "5", "1", "6", "9">>,
              <<"4", "1", "3", "4">>}
AsRests ==
    {<<>>, <<" ">>, <<" ", "G", "O", "O", "G", "L", "E">>,
     <<" ", "L", "e", "v", "e", "l", "3">>, <<"-", "1", "6", "3">>}
AsOthers == {None, Empty, Num(15169), Num(-5), Str(Txt.GOOGLE), Bool(TRUE)}

\* _as_number_from_string on every such value, and again on its result
InitAsNumber ==
    /\ \/ /\ sparts \in AsMarkers \X AsNumbers \X AsRests
          /\ sval = Str(sparts[1] \o sparts[2] \o sparts[3])
       \/ /\ sparts = <<>>
          /\ sval \in AsOthers
    /\ sret = None /\ sret2 = None /\ spc = "call"
    /\ IdleMerge /\ IdleAddr /\ IdleDedup /\ IdleNames /\ IdleSvc /\ IdleIp

NextAsNumber == AsNumCall \/ AsNumAgain

SpecAsNumber == InitAsNumber /\ [][NextAsNumber]_vars

-----------------------------------------------------------------------------
(* Claims about _merge_unified (SpecMerge) *)

\* "empty" for the merge policy: None, "", 0 (and False, which equals 0)
IsEmptyValue(v) == v \in {None, Empty, Num(0), Bool(FALSE)}

\* C5: after _merge_unified(base, inc) every field whose base value was
\* non-empty keeps its base value, and a field of inc is written only when the
\* field was missing from base or held None, "" or 0; base = {city: A},
\* inc = {city: B, province: C} yields {city: A, province: C}.
C5_MergePrecedence ==
    mpc = "done" =>
        /\ \A key \in DOMAIN mbase :
              ~IsEmptyValue(mbase[key]) =>
                  key \in DOMAIN mres /\ mres[key] = mbase[key]
        /\ \A key \in DOMAIN mres :
              (key \notin DOMAIN mbase \/ mres[key] # mbase[key]) =>
                  /\ key \in DOMAIN minc /\ mres[key] = minc[key]
                  /\ (key \notin DOMAIN mbase \/ IsEmptyValue(mbase[key]))
        /\ (mbase = [city |-> Str(<<"A">>)]
              /\ minc = [city |-> Str(<<"B">>), province |-> Str(<<"C">>)])
           => mres = [city |-> Str(<<"A">>), province |-> Str(<<"C">>)]

C5_Witness ==
    /\ mpc = "done"
    /\ mbase = [city |-> Str(<<"A">>)]
    /\ minc = [city |-> Str(<<"B">>), province |-> Str(<<"C">>)]
    /\ mres = [city |-> Str(<<"A">>), province |-> Str(<<"C">>)]

AllEmptyStrings(d) == \A key \in DOMAIN d : d[key] = Empty

\* C6 as stated: merging a partial with no keys, or one whose every field is
\* the empty string, leaves every field of the accumulator unchanged,
\* including fields that hold None or the number 0.
C6_Original ==
    (mpc = "done" /\ AllEmptyStrings(minc)) =>
        \A key \in DOMAIN mbase : key \in DOMAIN mres /\ mres[key] = mbase[key]

\* C6 amended: merging a partial with no keys returns the accumulator as it
\* was; merging a partial whose every field is the empty string leaves
\* unchanged the accumulator fields that hold a non-empty value or the empty
\* string, while a field the partial has and the accumulator holds as None or
\* 0, or lacks, becomes the empty string.
C6_EmptyPartial ==
    mpc = "done" =>
        /\ DOMAIN minc = {} => mres = mbase
        /\ AllEmptyStrings(minc) =>
              /\ DOMAIN mres = DOMAIN mbase \cup DOMAIN minc
              /\ \A key \in DOMAIN mres :
                    mres[key] =
                        IF key \in DOMAIN mbase
                           /\ (key \notin DOMAIN minc
                                 \/ mbase[key] \notin {None, Num(0), Bool(FALSE)})
                        THEN mbase[key]
                        ELSE Empty

C6_Witness ==
    /\ mpc = "done"
    /\ mbase = [city |-> None, province |-> Str(<<"A">>)]
    /\ minc = [city |-> Empty, province |-> Empty]
    /\ mres = [city |-> Empty, province |-> Str(<<"A">>)]

-----------------------------------------------------------------------------
(* Claims about get_addr (SpecAddr) *)

Net88_0024  == <<"8", ".", "8", ".", "0", ".", "0", "/", "2", "4">>
Net888_024  == <<"8", ".", "8", ".", "8", ".", "0", "/", "2", "4">>
NetDoc32    == <<"2", "0", "0", "1", ":", "d", "b", "8", ":", ":", "/", "3", "2">>

\* C9 as stated: get_addr("8.8.8.8", 24) = "8.8.0.0/24" and
\* get_addr("2001:db8::1", 32) = "2001:db8::/32".
C9_Original ==
    apc = "done" =>
        /\ (aip = Ip8888 /\ amask = 24) => ares = Str(Net88_0024)
        /\ (aip = IpDoc /\ amask = 32) => ares = Str(NetDoc32)

\* C9 amended: get_addr("8.8.8.8", 24) = "8.8.8.0/24" and
\* get_addr("2001:db8::1", 32) = "2001:db8::/32".
C9_Examples ==
    apc = "done" =>
        /\ (aip = Ip8888 /\ amask = 24) => ares = Str(Net888_024)
        /\ (aip = IpDoc /\ amask = 32) => ares = Str(NetDoc32)

C9_Witness ==
    apc = "done" /\ aip = Ip8888 /\ amask = 24 /\ ares = Str(Net888_024)

\* bit p (1 = the highest) of an address of groups of w bits
BitOf(g, p, w) ==
    LET i   == ((p - 1) \div w) + 1
        low == w - 1 - ((p - 1) % w)
    IN  (g[i] \div Pow2(low)) % 2

\* C10: for every valid address ip and mask length m within its width,
\* get_addr(ip, m) is "<n>/<m>" where n has the high m bits of ip and its
\* other bits zero, whether or not ip is a network address; get_addr(n, m)
\* is the same string.
C10_NetworkAddress ==
    apc \in {"done", "again"} =>
        LET v4    == Len(agroups) = 4
            w     == IF v4 THEN 8 ELSE 16
            width == IF v4 THEN 32 ELSE 128
            parts == Split(ares.s, "/")
            n     == IF v4 THEN ParseV4(parts[1]) ELSE ParseV6(parts[1])
        IN  /\ ares # Raised
            /\ Len(parts) = 2
            /\ parts[2] = ToText(amask, 10)
            /\ IF v4 THEN ValidV4(parts[1]) ELSE ValidV6(parts[1])
            /\ \A p \in 1..width :
                  BitOf(n, p, w) = IF p <= amask THEN BitOf(agroups, p, w) ELSE 0
            /\ apc = "again" => ares2 = ares

\* an address with host bits set, cut inside a group, and asked again
C10_Witness ==
    /\ apc = "again"
    /\ Len(agroups) = 8 /\ agroups[2] = 3512 /\ agroups[8] = 65535
    /\ amask = 21
    /\ ParseV6(NetworkText(ares))[2] = 2048
    /\ ares2 = ares

-----------------------------------------------------------------------------
(* Claims about get_ip_info (Spec) *)

\* get_ip_info has returned to its caller, or raised
Returned == pc = "done"

\* C1: whatever the ip, the outcomes of the remote attempts and the answers of
\* the local databases, the record get_ip_info returns has exactly the 17
\* keys of the schema.
C1_AllKeys ==
    Returned => result # Raised /\ DOMAIN result = Keys17

\* both pipelines raised
C1_Witness ==
    /\ Returned
    /\ remoteRet = Raised /\ localRet = Raised
    /\ DOMAIN result = Keys17

\* C2 as stated: in the record get_ip_info returns no field is None and every
\* field is a str, latitude and longitude possibly a number instead.
C2_StringsNeverNull ==
    Returned =>
        /\ result # Raised
        /\ \A key \in DOMAIN result :
              \/ IsStr(result[key])
              \/ key \in {"latitude", "longitude"} /\ IsNum(result[key])

\* C3: get_ip_info never raises; when get_ip_info_remote raises, the remote
\* part is the template with only ip set; when get_ip_info_local raises, the
\* local part is {} and the record returned is the remote part.
C3_NoException ==
    Returned =>
        /\ result # Raised
        /\ remoteRet = Raised =>
              /\ DOMAIN remote = Keys17
              /\ remote["ip"] = Str(ip)
              /\ \A key \in Keys17 \ {"ip"} : remote[key] = Empty
        /\ remoteRet # Raised => remote = remoteRet
        /\ localRet = Raised => local = NoKeys /\ result = remote

\* the local pipeline raised after a source had answered with a country
C3_Witness ==
    /\ Returned
    /\ localRet = Raised
    /\ succeeded > 0 /\ remoteRet # Raised
    /\ remote["country_code"] = Str(Txt.CN)
    /\ result = remote

\* C4: when every attempt of get_ip_info_remote failed, get_ip_info does not
\* raise, every field other than ip of the record it returns is the value
\* get_ip_info_local produced for it (the empty string when the local pipeline
\* raised), and timezone and isp are the empty string.
C4_LocalOnly ==
    (Returned /\ succeeded = 0) =>
        /\ result # Raised
        /\ result["ip"] = Str(ip)
        /\ result["timezone"] = Empty /\ result["isp"] = Empty
        /\ localRet # Raised =>
              \A key \in DOMAIN localRet \ {"ip"} : result[key] = localRet[key]
        /\ localRet = Raised =>
              \A key \in Keys17 \ {"ip"} : result[key] = Empty

C4_Witness ==
    /\ Returned /\ succeeded = 0
    /\ localRet # Raised
    /\ localRet["country_code"] = Str(Txt.US)
    /\ result["country_code"] = Str(Txt.US)
    /\ result["regions"] = localRet["regions"] /\ result["regions"] # Empty
    /\ result["timezone"] = Empty

\* C7: in the record get_ip_info returns, a field the remote aggregate holds a
\* non-empty value for has that remote value whatever the local pipeline
\* produced; a field takes its value from the local pipeline only where the
\* remote aggregate is None, "" or 0.
C7_RemoteFirst ==
    Returned =>
        /\ result # Raised
        /\ \A key \in DOMAIN remote :
              ~IsEmptyValue(remote[key]) => result[key] = remote[key]
        /\ \A key \in DOMAIN result :
              (key \notin DOMAIN remote \/ result[key] # remote[key]) =>
                  key \notin DOMAIN remote \/ IsEmptyValue(remote[key])

\* remote and local disagree on a field both have a value for, and local
\* fills a field the remote aggregate left empty
C7_Witness ==
    /\ Returned
    /\ \E key \in DOMAIN remote \cap DOMAIN local :
          /\ ~IsEmptyValue(remote[key]) /\ ~IsEmptyValue(local[key])
          /\ remote[key] # local[key]
          /\ result[key] = remote[key]
    /\ \E key \in DOMAIN remote \cap DOMAIN local :
          /\ remote[key] = Empty /\ ~IsEmptyValue(local[key])
          /\ result[key] = local[key]

\* the code of a (registered) country of a City record, None when absent
CodeOf(cityInfo, field) ==
    IF field \in DOMAIN cityInfo THEN G0(cityInfo[field].o, "iso_code") ELSE None

\* the deduplicated (province, city, district) of an override record
OverrideTriple(cnInfo) ==
    DeDuplicate(<<PyOr(G(cnInfo, "province"), Empty), PyOr(G(cnInfo, "city"), Empty),
                  PyOr(G(cnInfo, "districts"), Empty)>>)

\* the comma-join of the deduplicated triple
OverrideRegions(cnInfo) ==
    LET t == OverrideTriple(cnInfo)
    IN  Str(Join([i \in 1..Len(t) |-> t[i].s], <<",">>))

\* the case of C8: the City record says CN, the registered country is absent
\* or CN, and the override database matches with a non-empty triple
OverrideCase ==
    /\ Returned
    /\ localRet # Raised
    /\ db.city \notin {None, Raised}
    /\ CodeOf(db.city.o, "country") = Str(Txt.CN)
    /\ CodeOf(db.city.o, "registered_country") \in {None, Str(Txt.CN)}
    /\ db.cn \notin {None, Raised}
    /\ OverrideTriple(db.cn.o) # <<>>

\* the regions get_ip_info_local would produce from the City record alone
CityRegions == GetIpInfoLocal(ip, [db EXCEPT !.cn = None])["regions"]

\* C8 as stated: in the override case the regions of the record get_ip_info
\* returns is the comma-join of the override record's deduplicated triple.
C8_Original ==
    OverrideCase => result["regions"] = OverrideRegions(db.cn.o)

\* C8 amended: in the override case the regions get_ip_info_local produces is
\* the comma-join of the override record's deduplicated triple, not the City
\* region list; get_ip_info returns that value when the regions of the remote
\* aggregate is empty, and the regions of the remote aggregate otherwise.
C8_OverrideRegions ==
    OverrideCase =>
        /\ localRet["regions"] = OverrideRegions(db.cn.o)
        /\ IsEmptyValue(remote["regions"]) =>
              result["regions"] = OverrideRegions(db.cn.o)
        /\ ~IsEmptyValue(remote["regions"]) =>
              result["regions"] = remote["regions"]

\* the City list and the override triple differ and no source gave a region
C8_Witness ==
    /\ OverrideCase
    /\ db.city = CityBeijing /\ db.cn = CnFull
    /\ IsEmptyValue(remote["regions"])
    /\ CityRegions = Str(Txt.Beijing)
    /\ result["regions"] = Str(Txt.Beijing \o <<",">> \o Txt.Haidian)

-----------------------------------------------------------------------------
(* Claims about de_duplicate (SpecDedup) *)

\* the position of the first occurrence of v in the list l
FirstIndex(l, v) == CHOOSE i \in 1..Len(l) : l[i] = v /\ \A j \in 1..(i - 1) : l[j] # v

DedupExample == <<Str(NameBeijing), Empty, Str(NameBeijing), Str(NameHaidian)>>

\* C11: for every list of strings de_duplicate returns a list without an
\* empty entry and without a repeated entry, whose entries are exactly the
\* distinct non-empty entries of the input, in the order of their first
\* occurrence; ["Beijing", "", "Beijing", "Haidian"] gives
\* ["Beijing", "Haidian"]; applying it to its result changes nothing.
C11_OrderedDistinct ==
    dpc \in {"done", "again"} =>
        /\ \A i \in 1..Len(dret) : dret[i] # Empty
        /\ \A i, j \in 1..Len(dret) : i # j => dret[i] # dret[j]
        /\ {dret[i] : i \in 1..Len(dret)}
              = {dregions[i] : i \in 1..Len(dregions)} \ {Empty}
        /\ \A i, j \in 1..Len(dret) :
              i < j => FirstIndex(dregions, dret[i]) < FirstIndex(dregions, dret[j])
        /\ dregions = DedupExample => dret = <<Str(NameBeijing), Str(NameHaidian)>>
        /\ dpc = "again" => dret2 = dret

C11_Witness ==
    /\ dpc = "again"
    /\ dregions = DedupExample
    /\ dret = <<Str(NameBeijing), Str(NameHaidian)>>
    /\ dret2 = dret

-----------------------------------------------------------------------------
(* Claims about get_ip_info_local (SpecLocal) *)

\* rule i of derive_isp_from_org has a keyword inside the name, whatever
\* the case of its letters
RuleMatches(i, name) ==
    \E kw \in IspRules[i][1] : Contains(Lower(name), kw)

\* the ASN step has run on a record with a number and a name
AsnStepDone ==
    /\ pc = "override"
    /\ db.asn \notin {None, Raised}
    /\ "as" \in DOMAIN linfo

\* C12: the label the ASN step attaches is the table's whenever the AS number
\* is in the table, whatever the organization name; otherwise it is the label
\* of the first rule, in rule order, with a keyword inside the lower-cased
\* name; when no rule matches no label is attached.
C12_TableBeforeHeuristic ==
    AsnStepDone =>
        LET as     == linfo["as"].o
            number == db.asn.o["autonomous_system_number"].n
            name   == db.asn.o["autonomous_system_organization"].s
            rules  == {i \in 1..Len(IspRules) : RuleMatches(i, name)}
        IN  /\ number \in DOMAIN AsnMap =>
                  "info" \in DOMAIN as /\ as["info"] = Str(AsnMap[number])
            /\ (number \notin DOMAIN AsnMap /\ rules = {}) => "info" \notin DOMAIN as
            /\ (number \notin DOMAIN AsnMap /\ rules # {}) =>
                  /\ "info" \in DOMAIN as
                  /\ \E i \in rules :
                        /\ \A j \in rules : i <= j
                        /\ as["info"] = Str(IspRules[i][2])

\* the table says China Telecom where the name says Tencent
C12_Witness ==
    /\ AsnStepDone
    /\ db.asn = AsnTelecomTencent
    /\ RuleMatches(3, Txt.TencentCloud)
    /\ linfo["as"].o["info"] = Str(Labels.ZhongguoDianxin)
    /\ Labels.ZhongguoDianxin # Labels.TengxunYun

\* get_maxmind has returned after a City hit
CityStepDone ==
    /\ pc = "override"
    /\ Truthy(db.city)

\* the localized names of the subdivisions of the City record, in its order
SubdivisionNames ==
    LET subs == Get(db.city.o, "subdivisions", List(<<>>)).l
    IN  [i \in 1..Len(subs) |-> GetDes(subs[i].o)]

\* the City record has a city whose name goes to the end of the region list
CityAppended ==
    /\ "city" \in DOMAIN db.city.o
    /\ LET city    == GetDes(db.city.o["city"].o).s
           subs    == SubdivisionNames
           country == IF "country" \in DOMAIN linfo
                      THEN linfo["country"].o["name"].s ELSE <<>>
       IN  /\ subs = <<>> \/ ~Contains(subs[Len(subs)].s, city)
           /\ ~Contains(country, city)

\* C18: after the City step the region list is the subdivision names in the
\* order of the record, the city name appended only if (the list is empty or
\* the name is not inside its last entry) and the name is not inside the country
\* name, then deduplicated; province is its first element, city its last one
\* only when it has more than one; so a city set comes with a province set
\* and differs from it.
C18_RegionList ==
    CityStepDone =>
        LET regions == linfo["regions"].l
            list    == IF CityAppended
                       THEN Append(SubdivisionNames, GetDes(db.city.o["city"].o))
                       ELSE SubdivisionNames
        IN  /\ regions = DeDuplicate(list)
            /\ "province" \in DOMAIN linfo <=> regions # <<>>
            /\ "city" \in DOMAIN linfo <=> Len(regions) > 1
            /\ regions # <<>> => linfo["province"] = regions[1]
            /\ Len(regions) > 1 => linfo["city"] = regions[Len(regions)]
            /\ "city" \in DOMAIN linfo =>
                  "province" \in DOMAIN linfo /\ linfo["city"] # linfo["province"]

\* the city is Beijing and so is the only subdivision: one region, a province
\* and no city
C18_Witness ==
    /\ CityStepDone
    /\ db.city = CityBeijing
    /\ ~CityAppended
    /\ linfo["regions"] = List(<<Str(Txt.Beijing)>>)
    /\ linfo["province"] = Str(Txt.Beijing)
    /\ "city" \notin DOMAIN linfo

\* the override reader has been asked
Consulted == "cn" \in lookups

\* the City record has country code CN and a registered country that is
\* absent or CN as well
CnRecord ==
    /\ Truthy(db.city)
    /\ "country" \in DOMAIN db.city.o
    /\ G0(db.city.o["country"].o, "iso_code") = Str(Txt.CN)
    /\ \/ "registered_country" \notin DOMAIN db.city.o
       \/ G0(db.city.o["registered_country"].o, "iso_code") = Str(Txt.CN)

\* the fields of the claim
OverrideFields == {"addr", "regions", "province", "city", "as_info", "type"}

\* C19: get_ip_info_local asks the override reader exactly when the City
\* record has country code CN and a registered country that is absent or CN;
\* in every other case (no country, another country, a registered country that
\* is not CN, no City record) it never asks it, and addr, regions, province,
\* city, as_info and type of its result are those of the ASN and City steps.
C19_OverrideCondition ==
    /\ Consulted => CnRecord
    /\ pc \in {"build", "returned"} /\ linfo # Raised =>
          /\ Consulted <=> CnRecord
          /\ ~Consulted => linfo = GetMaxmind(ip, db)
    /\ pc = "returned" /\ localRet # Raised /\ ~Consulted =>
          \A key \in OverrideFields :
              localRet[key] = BuildUniformResult(GetMaxmind(ip, db))[key]

\* country CN registered in the US with a match waiting in the override
\* database: the reader is not asked and regions is the City step's
C19_Witness ==
    /\ pc = "returned"
    /\ db.city = CityCnRegUS
    /\ db.cn = CnFull
    /\ ~Consulted
    /\ lookups = {"asn", "city"}
    /\ localRet["regions"] = Str(Txt.Shanghai)
    /\ localRet["type"] = Empty

\* the province, city and district of the override record, without the
\* empty ones and without repetition
CnTriple ==
    LET Field(key) == IF key \in DOMAIN db.cn.o /\ Truthy(db.cn.o[key])
                      THEN db.cn.o[key] ELSE Empty
    IN  DeDuplicate(<<Field("province"), Field("city"), Field("districts")>>)

\* key is set in info: present and not empty
IsSet(info, key) == key \in DOMAIN info /\ Truthy(info[key])

\* info and after agree on key: both lack it or both hold the same value
SameAt(info, after, key) ==
    /\ key \in DOMAIN info <=> key \in DOMAIN after
    /\ key \in DOMAIN info => after[key] = info[key]

\* C20: a step of get_ip_info_local that asks the override reader, on a match,
\* recomputes addr from the prefix length of the match, replaces regions by
\* the deduplicated (province, city, district) triple only when that is not
\* empty, leaves a province or city that is set as it is and fills an unset
\* province with the first and an unset city with the last (when there are
\* several) override region; on a miss it leaves the record as it is.
C20_OverrideEffect ==
    [][(pc = "override" /\ pc' = "build" /\ "cn" \in lookups') =>
          IF db.cn # Raised /\ Truthy(db.cn)
          THEN /\ linfo'["addr"] = GetAddr(ip, db.cnPrefix)
               /\ \A key \in {"ip", "location", "country", "registered_country"} :
                     SameAt(linfo, linfo', key)
               /\ IF CnTriple = <<>>
                  THEN \A key \in {"regions", "province", "city"} :
                           SameAt(linfo, linfo', key)
                  ELSE /\ linfo'["regions"] = List(CnTriple)
                       /\ IF IsSet(linfo, "province")
                          THEN linfo'["province"] = linfo["province"]
                          ELSE linfo'["province"] = CnTriple[1]
                       /\ IF IsSet(linfo, "city")
                          THEN linfo'["city"] = linfo["city"]
                          ELSE IF Len(CnTriple) > 1
                          THEN linfo'["city"] = CnTriple[Len(CnTriple)]
                          ELSE SameAt(linfo, linfo', "city")
          ELSE linfo' = linfo]_vars

\* Beijing from the City step, (Beijing, Beijing, Haidian) from the override:
\* regions replaced, province kept, the unset city filled with Haidian
C20_Witness ==
    /\ pc = "build"
    /\ Consulted
    /\ db.city = CityBeijing /\ db.cityPrefix = 24
    /\ db.cn = CnFull /\ db.cnPrefix = 20
    /\ "city" \notin DOMAIN GetMaxmind(ip, db)
    /\ linfo["regions"] = List(<<Str(Txt.Beijing), Str(Txt.Haidian)>>)
    /\ linfo["province"] = Str(Txt.Beijing)
    /\ linfo["city"] = Str(Txt.Haidian)
    /\ linfo["addr"] = GetAddr(ip, 20)
    /\ linfo["addr"] # GetAddr(ip, 24)

\* C21: a step of get_ip_info_local that calls get_cn leaves as.info as the
\* ASN step set it (from the table or from the organization name), whatever
\* ISP label the override record holds.
C21_IspKeepsAsnLabel ==
    [][(pc = "override" /\ pc' = "build"
          /\ "as" \in DOMAIN linfo /\ "info" \in DOMAIN linfo["as"].o) =>
          linfo'["as"].o["info"] = linfo["as"].o["info"]]_vars

\* the fields of the result that say where the address is
GeoFields ==
    {"country_code", "country_name", "registered_country_code",
     "registered_country_name", "latitude", "longitude", "province", "city",
     "regions", "type"}

\* C22: when the City lookup misses, get_ip_info_local returns a record whose
\* addr is computed from the prefix length of the miss, whose ip is the
\* address asked for, whose AS fields are those of the ASN step, and whose
\* geographic fields and type are all empty; the override reader is not asked.
C22_CityMiss ==
    (pc = "returned" /\ db.city = None /\ localRet # Raised) =>
        /\ ~Consulted
        /\ lookups = {"asn", "city"}
        /\ DOMAIN linfo \subseteq {"ip", "addr", "as"}
        /\ localRet["ip"] = Str(ip)
        /\ localRet["addr"] = GetAddr(ip, db.cityPrefix)
        /\ \A key \in GeoFields : localRet[key] = Empty
        /\ IF db.asn = None
           THEN \A key \in {"as_number", "as_name", "as_info"} : localRet[key] = Empty
           ELSE /\ localRet["as_number"] = db.asn.o["autonomous_system_number"]
                /\ localRet["as_name"] = db.asn.o["autonomous_system_organization"]
                /\ localRet["as_info"] = Get(linfo["as"].o, "info", Empty)

\* a City miss at /8 with an ASN hit, and an override record that would match
C22_Witness ==
    /\ pc = "returned"
    /\ db.city = None /\ db.cityPrefix = 8
    /\ db.asn = AsnGoogle
    /\ db.cn = CnFull
    /\ localRet["addr"] = GetAddr(ip, 8)
    /\ localRet["addr"] # GetAddr(ip, 16)
    /\ localRet["as_number"] = Num(15169)
    /\ localRet["regions"] = Empty

-----------------------------------------------------------------------------
(* Claims about query_ip (SpecApi) *)

\* the request names an address that is no IPv4 and no IPv6 address
BadAddress == QueryIpVal(request) \in Unparsable

\* C13: a request whose address does not parse is answered with an error and
\* never with 200, the error is 400 as soon as the key verification lets the
\* request through, and get_ip_info is never entered for it: no source is
\* attempted and no reader is consulted.
C13_RejectedBeforeLookup ==
    BadAddress =>
        /\ pc \in {"request", "responded"}
        /\ ip = <<>> /\ NoCall
        /\ pc = "responded" =>
              /\ response.status >= 400
              /\ response.data = None
              /\ request.auth = "ok" => response.status = 400

\* an accepted key, an ip parameter of blanks only: 400 and nothing looked up
C13_Witness ==
    /\ pc = "responded"
    /\ request.auth = "ok"
    /\ request.param = Str(TxtSpaces)
    /\ request.xff = Str(Ip8888)
    /\ response = HttpError(400)
    /\ attempts = <<>> /\ lookups = {}

-----------------------------------------------------------------------------
(* Claims about get_ip_info_remote (SpecRemote, Spec) *)

Min(a, b) == IF a <= b THEN a ELSE b

\* the attempts made so far went to pairwise different sources
AttemptsDistinct(att) ==
    /\ \A i \in 1..Len(att) : att[i][1] \in Sources
    /\ \A i, j \in 1..Len(att) : att[i][1] = att[j][1] => i = j

\* C14: the sources are attempted in some order without repetition, failed
\* attempts are counted like successful ones, and when the loop is left the
\* number of attempts is exactly min(maxSources, 6).
C14_AttemptCount ==
    [][/\ AttemptsDistinct(attempts')
       /\ tried' = Len(attempts')
       /\ Len(attempts') <= Min(maxSources, Cardinality(Sources))
       /\ (pc = "remote" /\ pc' = "local") =>
             /\ Len(attempts) = Min(maxSources, Cardinality(Sources))
             /\ Cardinality(Sources) = 6]_vars

\* the limit of two is reached by two requests that both failed
C14_Witness ==
    /\ pc = "remote"
    /\ maxSources = 2
    /\ Len(attempts) = 2
    /\ succeeded = 0
    /\ \A i \in 1..2 : attempts[i][2] \in Failures
    /\ ENABLED RemoteReturn
    /\ ~ENABLED RemoteAttemptFew

\* the attempt failed: no answer, a status other than 200, a body that is no
\* JSON, or a mapper that raised
AttemptFailed(a) ==
    \/ a[2] \in Failures
    \/ Mapper(a[1], BodyOf(a[2])) = Raised

\* the partials of the successful attempts of att merged into u, first to last
RECURSIVE MergeSuccessful(_, _)
MergeSuccessful(u, att) ==
    IF att = <<>> THEN u
    ELSE IF AttemptFailed(Head(att)) THEN MergeSuccessful(u, Tail(att))
    ELSE MergeSuccessful(MergeUnified(u, Mapper(Head(att)[1], BodyOf(Head(att)[2]))),
                         Tail(att))

\* the accumulator get_ip_info_remote starts from
Fresh == Assign(UnifiedTemplate, [ip |-> Str(ip)])

\* C15: an attempt that fails leaves the accumulator as it was and is not made
\* again, the loop goes on while the limit allows and sources are left, and the
\* accumulator, hence (regions defaulting aside) the aggregate returned, is the
\* merge in attempt order of the successful attempts only.
C15_FailuresSkipped ==
    [][/\ pc = "remote" => unified = MergeSuccessful(Fresh, attempts)
       /\ (pc' = "remote" /\ attempts' # attempts) =>
             /\ Len(attempts') = Len(attempts) + 1
             /\ attempts'[Len(attempts')][1] \notin Attempted
             /\ AttemptFailed(attempts'[Len(attempts')]) => unified' = unified
       /\ (pc = "remote" /\ pc' = "local") =>
             /\ Len(attempts) = Min(maxSources, Cardinality(Sources))
             /\ remoteRet' # Raised =>
                   \A key \in Keys17 \ {"regions"} :
                       remoteRet'[key] = MergeSuccessful(Fresh, attempts)[key]]_vars

\* a timeout, then an answer that is merged, then a mapper that raises: the
\* accumulator holds the answer of the second source only
C15_Witness ==
    /\ pc = "remote"
    /\ Len(attempts) = 3
    /\ attempts[1][2] = "timeout"
    /\ ~AttemptFailed(attempts[2])
    /\ attempts[3] = <<"ipapi_is", "List">>
    /\ AttemptFailed(attempts[3])
    /\ unified # Fresh
    /\ unified = MergeUnified(Fresh, Mapper(attempts[2][1], BodyOf(attempts[2][2])))

\* what the mapper of attempt a made of the answer
PartialOf(a) == Mapper(a[1], BodyOf(a[2]))

\* the attempts of att that succeeded with a non-empty value for key
Providers(att, key) ==
    {i \in 1..Len(att) : ~AttemptFailed(att[i]) /\ ~IsEmptyValue(PartialOf(att[i])[key])}

\* u holds for key the value of the first attempt of att that provides one
FirstProviderWins(u, att, key) ==
    Providers(att, key) # {} =>
        \E i \in Providers(att, key) :
            /\ \A j \in Providers(att, key) : i <= j
            /\ u[key] = PartialOf(att[i])[key]

\* C16: for every field but ip and regions, the accumulator and the aggregate
\* returned hold the value of the earliest successful attempt whose mapped value
\* for the field is not None, "" or 0, and a field holding such a value is not
\* changed by a later attempt.
C16_EarliestNonEmpty ==
    [][/\ pc = "remote" =>
             \A key \in Keys17 \ {"ip", "regions"} :
                 FirstProviderWins(unified, attempts, key)
       /\ (pc = "remote" /\ pc' = "remote") =>
             \A key \in Keys17 \ {"ip", "regions"} :
                 ~IsEmptyValue(unified[key]) => unified'[key] = unified[key]
       /\ (pc = "remote" /\ pc' = "local" /\ remoteRet' # Raised) =>
             \A key \in Keys17 \ {"ip", "regions"} :
                 FirstProviderWins(remoteRet', attempts, key)]_vars

\* two sources answered with different cities and the first one's is kept,
\* while a field the first left empty holds the second one's value
C16_Witness ==
    /\ pc = "remote"
    /\ Len(attempts) >= 2
    /\ ~AttemptFailed(attempts[1]) /\ ~AttemptFailed(attempts[2])
    /\ ~IsEmptyValue(PartialOf(attempts[1])["city"])
    /\ ~IsEmptyValue(PartialOf(attempts[2])["city"])
    /\ PartialOf(attempts[1])["city"] # PartialOf(attempts[2])["city"]
    /\ unified["city"] = PartialOf(attempts[1])["city"]
    /\ \E key \in Keys17 \ {"ip", "regions"} :
          /\ IsEmptyValue(PartialOf(attempts[1])[key])
          /\ ~IsEmptyValue(PartialOf(attempts[2])[key])
          /\ unified[key] = PartialOf(attempts[2])[key]

\* province and city of rec joined by a comma, empty ones left out
ExpectedRegions(rec) ==
    LET p == rec["province"]
        c == rec["city"]
    IN  IF ~Truthy(p) /\ ~Truthy(c) THEN Empty
        ELSE IF ~Truthy(c) THEN p
        ELSE IF ~Truthy(p) THEN c
        ELSE Str(p.s \o <<",">> \o c.s)

\* rec after the defaulting of an empty regions field
Defaulted(rec) ==
    IF Truthy(rec["regions"]) THEN rec
    ELSE [rec EXCEPT !["regions"] = ExpectedRegions(rec)]

C27_IpKept ==
    /\ pc = "remote" => unified["ip"] = Str(ip)
    /\ pc \in {"local", "merge", "done"} => remote["ip"] = Str(ip)
    /\ Returned => result # Raised /\ result["ip"] = Str(ip) /\ ip # <<>>

\* a source that reports 9.9.9.9 was merged, the local pipeline raised, and
\* the record returned still has the ip asked for
C27_Witness ==
    /\ Returned
    /\ succeeded > 0
    /\ remoteRet # Raised
    /\ remoteRet["country_code"] = Str(Txt.US)
    /\ BodyUS.o["ip"] = Str(Txt.Ip9)
    /\ localRet = Raised
    /\ result["ip"] = Str(ip)
    /\ Str(ip) # Str(Txt.Ip9)

\* the sequence att in every order
Orders(att) ==
    {[i \in 1..Len(att) |-> att[p[i]]] :
        p \in {q \in [1..Len(att) -> 1..Len(att)] :
                 \A i, j \in 1..Len(att) : q[i] = q[j] => i = j}}

\* what each attempt of att contributed: its partial, or Raised if it failed
Partials(att) ==
    [i \in 1..Len(att) |-> IF AttemptFailed(att[i]) THEN Raised ELSE PartialOf(att[i])]

\* the partials of parts merged into u, first to last
RECURSIVE MergePartials(_, _)
MergePartials(u, parts) ==
    IF parts = <<>> THEN u
    ELSE IF Head(parts) = Raised THEN MergePartials(u, Tail(parts))
    ELSE MergePartials(MergeUnified(u, Head(parts)), Tail(parts))

\* the accumulators the attempts behind parts leave, one for each order
Aggregates(parts) == {MergePartials(Fresh, other) : other \in Orders(parts)}

\* the partials of parts with a non-empty value for key
ProvidersIn(parts, key) ==
    {i \in 1..Len(parts) : parts[i] # Raised /\ ~IsEmptyValue(parts[i][key])}

\* C28 as stated, for the partials parts and the accumulators aggs of all orders
OrderFreeAsStated(parts, aggs) ==
    \A key \in Keys17 :
        /\ Cardinality(ProvidersIn(parts, key)) = 1 =>
              \E i \in ProvidersIn(parts, key) : \A agg \in aggs : agg[key] = parts[i][key]
        /\ Cardinality(ProvidersIn(parts, key)) < 2 =>
              \A agg \in aggs : agg[key] = unified[key]

\* C28 as stated: with at most one successful attempt that maps a non-empty
\* value for a field, the accumulator holds that value under every order of
\* the attempts; two orders of the same attempts differ in a field only when
\* two attempts both map a non-empty value for it.
C28_Original ==
    pc = "remote" => OrderFreeAsStated(Partials(attempts), Aggregates(Partials(attempts)))

\* C28 for the partials parts and the accumulators aggs of all orders
OrderFree(parts, aggs) ==
    /\ unified \in aggs
    /\ \A agg \in aggs : agg["ip"] = Str(ip)
    /\ \A key \in Keys17 \ {"ip"} :
          /\ Cardinality(ProvidersIn(parts, key)) = 1 =>
                \E i \in ProvidersIn(parts, key) : \A agg \in aggs : agg[key] = parts[i][key]
          /\ ProvidersIn(parts, key) = {} =>
                \A agg \in aggs : IsEmptyValue(agg[key])

\* C28: for every field but ip, with exactly one successful attempt that maps
\* a non-empty value for the field the accumulator holds that value under
\* every order of the attempts; with none it holds None, "" or 0 under every
\* order, which of them depending on the order; ip is the ip passed in under
\* every order.  So two orders differ in a non-empty value of a field only
\* when two attempts both map a non-empty value for it.
C28_OrderIndependence ==
    pc = "remote" => OrderFree(Partials(attempts), Aggregates(Partials(attempts)))

\* three successful attempts; the only one with a city is the last and its
\* city is held; a field none of them has a value for is not the same in
\* every order
C28_Witness ==
    /\ pc = "remote"
    /\ Len(attempts) = 3
    /\ \A i \in 1..3 : ~AttemptFailed(attempts[i])
    /\ Providers(attempts, "city") = {3}
    /\ unified["city"] = PartialOf(attempts[3])["city"]
    /\ \E key \in Keys17 \ {"ip"} :
          /\ Providers(attempts, key) = {}
          /\ \E agg \in Aggregates(Partials(attempts)) : agg[key] # unified[key]

-----------------------------------------------------------------------------
(* Token sessions (SpecAuth) *)

\* nobody is logged in
InitAuth ==
    /\ redis = [u \in Users |-> None]
    /\ issued = {}
    /\ now = 0
    /\ current = [u \in Users |-> None]
    /\ reply = [op |-> "start"]
    /\ IdleQuota /\ IdleConc
    /\ IdleMerge /\ IdleAddr /\ IdleDedup /\ IdleNames /\ IdleAsNum /\ IdleIp

NextAuth == Login \/ Authenticate \/ Logout \/ ChangePassword \/ Tick

SpecAuth == InitAuth /\ [][NextAuth]_vars

\* get_current_user accepts token
Accepted(token) == GetCurrentUser(token).status = 200

\* C26: get_current_user accepts a token only if it is the one stored for its
\* user; at any time the tokens of a user that are accepted are at most one,
\* the one issued last and not revoked since; after a logout or a
\* change-password that reports success no token issued to that user is
\* accepted.
C26_TokenSessions ==
    [][/\ (reply'.op = "get_current_user" /\ reply'.success) =>
              redis[reply'.user] = reply'.token
       /\ \A u \in Users :
              /\ Cardinality({t \in issued' : t.sub = u /\ Accepted(t)'}) <= 1
              /\ \A t \in issued' : (t.sub = u /\ Accepted(t)') => t = current'[u]
       /\ (reply'.op \in {"logout", "change_password"} /\ reply'.success) =>
              \A t \in issued' : t.sub = reply'.user => ~Accepted(t)']_vars

-----------------------------------------------------------------------------
(* Quota accounting, one request after the other (SpecQuota), and requests
   of several workers at once (SpecQuotaConc) *)

\* a subscription with no limit or with 0..MaxQuota calls left, nothing used
InitQuota ==
    /\ \E r \in {None} \cup {Num(n) : n \in 0..MaxQuota} :
          /\ subscription = [used_calls |-> 0, remaining_calls |-> r]
          /\ quota = r
    /\ api = [call_count |-> 0]
    /\ session = [p \in Procs |-> NoSession]
    /\ accepted = 0 /\ lost = 0
    /\ IdleAuth /\ IdleConc
    /\ IdleMerge /\ IdleAddr /\ IdleDedup /\ IdleNames /\ IdleAsNum /\ IdleIp

VerifyNext == \E p \in Procs : Alone(p) /\ Verify(p)

RecordNext == \E p \in Procs : Record(p)

NextQuota == VerifyNext \/ RecordNext

SpecQuota == InitQuota /\ [][NextQuota]_vars

VerifyAny == \E p \in Procs : Verify(p)

NextQuotaConc == VerifyAny \/ RecordNext

SpecQuotaConc == InitQuota /\ [][NextQuotaConc]_vars

\* the request that took the step
Stepped(p) == session'[p] # session[p]

\* C29: remaining_calls is never negative; a call on a subscription with a
\* number <= 0 left is rejected with 429 and changes no counter; an accepted
\* call adds one to used_calls and to call_count and takes one from a positive
\* remaining_calls, and None stays None.
C29_QuotaAccounting ==
    [][\A p \in Procs : Stepped(p) =>
          /\ subscription'.remaining_calls # None => subscription'.remaining_calls.n >= 0
          /\ (session[p].pc = "start" /\ session'[p].status # 401
                 /\ subscription.remaining_calls # None
                 /\ subscription.remaining_calls.n <= 0) =>
                /\ session'[p].status = 429
                /\ subscription' = subscription /\ api' = api
          /\ session'[p].pc = "accepted" =>
                /\ subscription'.used_calls = subscription.used_calls + 1
                /\ api'.call_count = api.call_count + 1
                /\ subscription'.remaining_calls = Decremented(subscription.remaining_calls)]_vars

\* C30: with n calls left at the start, at most n requests are accepted, in
\* every interleaving of requests that verify and then record.
C30_QuotaConcurrent ==
    (quota # None /\ lost = 0) => accepted <= quota.n

-----------------------------------------------------------------------------
(* Calls of get_ip_info_remote at once (SpecConc) *)

InitConc ==
    /\ heap = [o \in Resolves |-> None]
    /\ calls = [r \in Resolves |-> NoResolve]
    /\ IdleAuth /\ IdleQuota
    /\ IdleMerge /\ IdleAddr /\ IdleDedup /\ IdleNames /\ IdleAsNum /\ IdleIp

StartNext == \E r \in Resolves : ResolveStart(r)

AttemptNext == \E r \in Resolves : ResolveAttempt(r)

ReturnNext == \E r \in Resolves : ResolveReturn(r)

NextConc == StartNext \/ AttemptNext \/ ReturnNext

SpecConc == InitConc /\ [][NextConc]_vars

\* what the call c holds, or has returned, had it run alone: the merge of its
\* own successful attempts in its own order into its own template
Alone25(c) ==
    IF c.pc = "returned"
    THEN RemoteRegionsDefault(MergePartials(Assign(UnifiedTemplate, [ip |-> Str(c.ip)]),
                                            Partials(c.attempts)))
    ELSE MergePartials(Assign(UnifiedTemplate, [ip |-> Str(c.ip)]), Partials(c.attempts))

\* C25: in every interleaving of the calls, the record of each call is what
\* the call would hold had it run alone with the same responses in the same
\* order, and a step of one call writes no field of the record of another.
C25_CallsIsolated ==
    [][\A r \in Resolves :
          /\ calls'[r].pc # "idle" => heap'[calls'[r].unified] = Alone25(calls'[r])
          /\ (calls'[r] = calls[r] /\ calls[r].pc # "idle") =>
                heap'[calls[r].unified] = heap[calls[r].unified]]_vars

\* two calls are in their loops at once, each has merged one partial, and
\* each holds its own ip and the country of its own source
C25_Witness ==
    /\ calls[1].pc = "remote" /\ calls[1].attempts = <<<<"ip_sb", "US">>>>
    /\ calls[2].pc = "remote" /\ calls[2].attempts = <<<<"ip_api", "CN">>>>
    /\ calls[1].unified # calls[2].unified
    /\ heap[calls[1].unified]["country_code"] = Str(Txt.US)
    /\ heap[calls[2].unified]["country_code"] = Str(Txt.CN)
    /\ heap[calls[1].unified]["ip"] = Str(Ip8888)
    /\ heap[calls[2].unified]["ip"] = Str(IpDoc)

-----------------------------------------------------------------------------
(* Claims about get_des and get_country (SpecNames) *)

\* the name map of the record, empty when it has none
NameMap == IF "names" \in DOMAIN nd THEN nd["names"].o ELSE NoKeys

\* C23: get_des returns the zh-CN name when the map has one, else the en
\* name when it has one, else "" (also without a name map); get_country
\* returns that name with 中国 in front exactly when it is 香港, 澳门 or 台湾,
\* and the name itself otherwise.
C23_LocalizedName ==
    npc = "done" =>
        /\ ndes = IF "zh-CN" \in DOMAIN NameMap THEN NameMap["zh-CN"]
                  ELSE IF "en" \in DOMAIN NameMap THEN NameMap["en"]
                  ELSE Empty
        /\ IF ndes \in {Str(Txt.Xianggang), Str(Txt.Aomen), Str(Txt.Taiwan)}
           THEN ncountry = Str(Txt.Zhongguo \o ndes.s)
           ELSE ncountry = ndes

\* both languages present and different: the zh-CN name 香港 is taken and
\* the country name is 中国香港
C23_Witness ==
    /\ npc = "done"
    /\ DOMAIN NameMap = {"zh-CN", "en", "ja"}
    /\ NameMap["zh-CN"] = Str(Txt.Xianggang)
    /\ NameMap["en"] = Str(Txt.HongKong)
    /\ ndes = Str(Txt.Xianggang)
    /\ ncountry = Str(Txt.Zhongguo \o Txt.Xianggang)

-----------------------------------------------------------------------------
(* Claims about _as_number_from_string (SpecAsNumber) *)

\* C24 as stated: the result is a string of digits, that of "AS12345" and of
\* "12345" is "12345" and that of None is "", a second application changes
\* nothing, and for a value written as marker, AS number, rest the result is
\* the AS number.
C24_Original ==
    spc \in {"done", "again"} =>
        /\ sret.k = "str" /\ \A i \in 1..Len(sret.s) : IsDecDigit(sret.s[i])
        /\ sval = None => sret = Empty
        /\ spc = "again" => sret2 = sret
        /\ sparts # <<>> => sret = Str(sparts[2])

\* what the code computes: the string of all digit characters of str(value),
\* in their order ("" for None); for a value written as marker, AS number,
\* rest that is the AS number followed by the digits of the rest.
AllDigitsKept ==
    spc \in {"done", "again"} =>
        /\ sret.k = "str" /\ \A i \in 1..Len(sret.s) : IsDecDigit(sret.s[i])
        /\ sval = None => sret = Empty
        /\ sval # None => sret = Str(SelectSeq(StrOf(sval), IsDecDigit))
        /\ spc = "again" => sret2 = sret
        /\ sparts # <<>> =>
              sret = Str(sparts[2] \o SelectSeq(sparts[3], IsDecDigit))
        /\ sval \in {Str(<<"A", "S", "1", "2", "3", "4", "5">>),
                     Str(<<"1", "2", "3", "4", "5">>)} =>
              sret = Str(<<"1", "2", "3", "4", "5">>)

\* "AS15169 Level3": the result is 151693, not the AS number 15169
Level3Digits ==
    /\ spc = "again"
    /\ sval = Str(<<"A", "S", "1", "5", "1", "6", "9", " ", "L", "e", "v", "e", "l", "3">>)
    /\ sret = Str(<<"1", "5", "1", "6", "9", "3">>)
    /\ sret2 = sret


=============================================================================
